---- MODULE Spec2Model ----
(***************************************************************************)
(* Model of the Firestarter tool orchestration engine:                     *)
(*   - PentestOrchestrator (backend/app/agents/orchestrator.py): sessions, *)
(*     the HITL/auto confirmation gate, confirm_action, switch_mode;       *)
(*   - SessionState / PendingAction (backend/app/schemas/session.py);      *)
(*   - ToolExecutor (backend/app/tools/executor.py): the registry of      *)
(*     names and aliases, command synthesis, captured and streaming runs; *)
(*   - ToolSpec.find_executable (backend/app/tools/specs/__init__.py) on   *)
(*     a host given by its PATH, its files and its importable modules;     *)
(*   - TargetParser / TargetValidator (backend/app/target).                *)
(*                                                                         *)
(* An asynchronous handler is split at its awaits: one action per segment  *)
(* of code that runs without suspension, so that handlers of different     *)
(* calls interleave exactly where the event loop can interleave them.      *)
(*                                                                         *)
(* Modelling assumption: orchestrator.py reads and assigns                 *)
(* session.current_phase (and reads session.current_model), attributes     *)
(* that the SessionState class of schemas/session.py does not declare.     *)
(* The model treats them as ordinary assignable attributes of the session  *)
(* object and keeps them out of the modelled state; a pydantic base class  *)
(* that refuses undeclared attributes would make these accesses raise, and *)
(* every property below is stated for a session object that accepts them.  *)
(*                                                                         *)
(* get_all_specs imports the modules specs/vulnerability.py and            *)
(* specs/exploitation.py, whose source is not part of the tree modelled    *)
(* here; the registry of the model holds six of the specs of recon.py     *)
(* and scanning.py, one for each kind of discovery and of template.        *)
(*                                                                         *)
(* An execution runs on a thread (workers): execute and execute_streaming  *)
(* are split at the _record_history call, and _stream_pty is split into    *)
(* the iterations of its loop, between which the child writes, forks or    *)
(* exits and time passes. The child, the terminal and the clock are the    *)
(* environment: what they do is drawn, nothing is assumed of them. The     *)
(* specifications of the orchestrator keep the executor as environment     *)
(* (the outcome of an execution is drawn there, the history is not kept).  *)
(* The module of the routine of web_search                                 *)
(* (implementations/websearch.py) is not part of the tree; its signature   *)
(* is taken to be the key of its command template.                         *)
(*                                                                         *)
(* ToolRAG.search and ToolRAG.select_tool (backend/app/tools/tool_rag.py)  *)
(* are modelled over the rows of tool_embeddings (a similarity stands for  *)
(* ten times its value: 9 is 0.9, 11 is out of the range of the field)     *)
(* and over the reply of the model, which is the environment. The calls    *)
(* of one session can be in flight together (SpecRace); the pseudo-        *)
(* terminal of a streamed run is the set of its descriptors still open.    *)
(***************************************************************************)
EXTENDS Integers, Sequences, FiniteSets, TLC

\* ------------------------------------------------------------------------
\* Bounds of the model
\* ------------------------------------------------------------------------
MaxActions == 2       \* PendingAction ids (uuid4 values) ever generated
MaxExecutions == 2    \* ToolResults (execution ids, uuid4 values) ever created
MaxOutput == 3        \* characters the child of a streamed command writes
StreamTimeout == 1    \* the timeout of a streamed command, in clock ticks
MaxRows == 3          \* rows of tool_embeddings

None == "<None>"      \* Python None

\* ------------------------------------------------------------------------
\* Python string helpers (str methods used by the code)
\* ------------------------------------------------------------------------
RECURSIVE Contains(_, _)
\* sub in s
Contains(s, sub) ==
    IF Len(s) < Len(sub) THEN FALSE
    ELSE IF SubSeq(s, 1, Len(sub)) = sub THEN TRUE
    ELSE Contains(SubSeq(s, 2, Len(s)), sub)

\* s.startswith(p)
StartsWith(s, p) == Len(s) >= Len(p) /\ SubSeq(s, 1, Len(p)) = p

\* s.endswith(p)
EndsWith(s, p) == Len(s) >= Len(p) /\ SubSeq(s, Len(s) - Len(p) + 1, Len(s)) = p

RECURSIVE Replace(_, _, _)
\* s.replace(old, new) for a non-empty old: left to right, non-overlapping
Replace(s, old, new) ==
    IF Len(s) < Len(old) THEN s
    ELSE IF SubSeq(s, 1, Len(old)) = old
         THEN new \o Replace(SubSeq(s, Len(old) + 1, Len(s)), old, new)
         ELSE SubSeq(s, 1, 1) \o Replace(SubSeq(s, 2, Len(s)), old, new)

RECURSIVE Join(_, _)
\* sep.join(parts)
Join(parts, sep) ==
    IF Len(parts) = 0 THEN ""
    ELSE IF Len(parts) = 1 THEN parts[1]
    ELSE parts[1] \o sep \o Join(Tail(parts), sep)

\* ------------------------------------------------------------------------
\* Python dict, as the sequence of its <<key, value>> items in insertion
\* order (the order in which dict.items() iterates)
\* ------------------------------------------------------------------------
DictHas(d, k) == \E i \in 1..Len(d) : d[i][1] = k

DictGet(d, k) == d[CHOOSE i \in 1..Len(d) : d[i][1] = k][2]

\* d[k] = v
DictPut(d, k, v) ==
    IF DictHas(d, k)
    THEN [i \in 1..Len(d) |-> IF d[i][1] = k THEN <<k, v>> ELSE d[i]]
    ELSE Append(d, <<k, v>>)

\* ------------------------------------------------------------------------
\* State
\* ------------------------------------------------------------------------
VARIABLES
    sessions,         \* PentestOrchestrator.sessions: session id -> SessionState
    req,              \* the calls in flight: position and locals of each
    next_action,      \* number of PendingAction ids drawn so far, plus one
    returned,         \* what the step taken last returned to its caller, if anything
    replaced,         \* ids of the pending actions a later one has overwritten
    specs,            \* keys of ToolExecutor.specs; the spec under key n is ToolSpecs[n]
    aliases,          \* ToolExecutor.aliases: alias -> spec name
    executable_path,  \* ToolSpec.executable_path of each spec
    is_available,     \* ToolSpec.is_available of each spec
    host,             \* the environment discovery looks at
    xcall,            \* the ToolExecutor / ToolSpec method called last, with its result
    execution_history,\* ToolExecutor.execution_history
    next_exec,        \* number of ToolResults (execution ids) created so far, plus one
    workers           \* the threads running execute / execute_streaming: position
                      \* and locals of each

\* the state of the orchestrator
orchestrator_vars == <<sessions, req, next_action, returned, replaced>>

\* the state of the executor, its specs and its environment
executor_vars ==
    <<specs, aliases, executable_path, is_available, host, xcall,
      execution_history, next_exec, workers>>

\* what an execution changes besides the result it hands back
run_vars == <<execution_history, next_exec, workers>>

vars == <<sessions, req, next_action, returned, replaced,
          specs, aliases, executable_path, is_available, host, xcall,
          execution_history, next_exec, workers>>

\* ------------------------------------------------------------------------
\* Tool registry (backend/app/tools/specs): the specs the model registers
\* ------------------------------------------------------------------------
\* specs/recon.py whois, httpx, bbot, web_search, technology_detection;
\* specs/scanning.py nmap_scan.
\* commands maps a command name to CommandTemplate.args, success_codes to
\* CommandTemplate.success_codes
ToolSpecs ==
    [ whois |->
        [ name |-> "whois", executable_names |-> <<"whois">>,
          install_hint |-> "apt install whois",
          aliases |-> <<"whois_lookup", "domain_whois", "domain_info">>,
          implementation |-> None,
          commands |-> ("lookup" :> <<"{target}">>),
          success_codes |-> ("lookup" :> {0, 1}) ],
      httpx |->
        [ name |-> "httpx", executable_names |-> <<"httpx">>,
          install_hint |->
            "go install github.com/projectdiscovery/httpx/cmd/httpx@latest",
          aliases |-> <<"probe", "web_probe", "httpx_scan">>,
          implementation |-> None,
          commands |-> ("probe" :> <<"-u", "{url}", "-sc", "-title", "-silent">>),
          success_codes |-> ("probe" :> {0}) ],
      bbot |->
        [ name |-> "bbot", executable_names |-> <<"bbot">>,
          install_hint |-> "pip install bbot",
          aliases |-> <<"bionic_bot", "osint_scanner">>,
          implementation |-> None,
          commands |-> ("quick" :> <<"-t", "{target}", "-m", "nmap", "httpx", "-y">>),
          success_codes |-> ("quick" :> {0}) ],
      web_search |->
        [ name |-> "web_search", executable_names |-> <<>>,
          install_hint |-> "pip install google-search-results",
          aliases |-> <<"google_search", "online_recon", "osint_search">>,
          implementation |-> "app.tools.implementations.websearch.search",
          commands |-> ("search" :> <<"{query}">>),
          success_codes |-> ("search" :> {0}) ],
      technology_detection |->
        [ name |-> "technology_detection", executable_names |-> <<>>,
          install_hint |-> "pip install python-Wappalyzer",
          aliases |-> <<"tech_detect", "fingerprint", "cms_detect">>,
          implementation |->
            "app.tools.implementations.web_tools.technology_detection",
          commands |-> ("detect" :> <<>>),
          success_codes |-> ("detect" :> {0}) ],
      nmap_scan |->
        [ name |-> "nmap_scan", executable_names |-> <<"nmap">>,
          install_hint |-> "apt install nmap",
          aliases |-> <<"nmap", "port_scan", "service_detection", "os_detection">>,
          implementation |-> None,
          commands |-> ("quick" :> <<"-T4", "-F", "-Pn", "{target}">>)
                    @@ ("full" :> <<"-T4", "-p-", "-Pn", "{target}">>),
          success_codes |-> ("quick" :> {0}) @@ ("full" :> {0}) ] ]

SpecNames == DOMAIN ToolSpecs

\* get_all_specs: the order in which the specs are handed to _load_specs
AllSpecs ==
    <<"whois", "httpx", "bbot", "web_search", "technology_detection", "nmap_scan">>

\* the empty registry of ToolExecutor.__init__
NoRegistry == [specs |-> {}, aliases |-> << >>]

RECURSIVE RegisterAliases(_, _, _)
\* _load_specs lines 60-61: for alias in spec.aliases: aliases[alias] = name
RegisterAliases(als, names, n) ==
    IF Len(names) = 0 THEN als
    ELSE RegisterAliases((names[1] :> n) @@ als, Tail(names), n)

\* the body of the loop of _load_specs for the spec named n
register(reg, n) ==
    [specs   |-> reg.specs \cup {n},
     aliases |-> RegisterAliases(reg.aliases, ToolSpecs[n].aliases, n)]

RECURSIVE LoadFrom(_, _)
\* _load_specs over the specs still to be registered
LoadFrom(reg, names) ==
    IF Len(names) = 0 THEN reg
    ELSE LoadFrom(register(reg, names[1]), Tail(names))

\* ToolExecutor._load_specs: the registry of a constructed executor
load_specs == LoadFrom(NoRegistry, AllSpecs)

\* get_tool without the alias dictionary
lookup_names_only(ss, als, name) ==
    IF name \in ss THEN name ELSE None

\* ToolExecutor.get_tool on the dictionaries ss (keys of specs) and als: the
\* key of the spec a name or alias resolves to, None when there is none
lookup(ss, als, name) ==
    IF name \in ss THEN name
    ELSE IF name \in DOMAIN als
    THEN (IF als[name] \in ss THEN als[name] ELSE None)
    ELSE None

\* ToolExecutor.get_tool: the registered name a name or alias resolves to
get_tool(name) == lookup(specs, aliases, name)

\* ------------------------------------------------------------------------
\* Discovery (ToolSpec.find_executable, ToolExecutor._discover_tools)
\* ------------------------------------------------------------------------
\* A host is what discovery can see: path holds the executable names
\* shutil.which resolves, files the executable files outside PATH, modules the
\* importable python modules.
Host(path, files, modules) ==
    [path |-> path, files |-> files, modules |-> modules, platform |-> "linux"]

\* the same installation where sys.platform is "win32"
OnWindows(h) == [h EXCEPT !.platform = "win32"]

\* shutil.which(exe_name)
which(h, exe_name) == IF exe_name \in h.path THEN "/usr/bin/" \o exe_name ELSE None

\* find_executable lines 72-77 (home is /root)
extra_paths == <<"/root/go/bin", "/root/.local/bin", "/usr/local/bin", "/snap/bin">>

UpperCase == "ABCDEFGHIJKLMNOPQRSTUVWXYZ"
LowerCase == "abcdefghijklmnopqrstuvwxyz"

\* str.lower of one character
LowerChar(c) ==
    IF \E i \in 1..26 : SubSeq(UpperCase, i, i) = c
    THEN LET i == CHOOSE i \in 1..26 : SubSeq(UpperCase, i, i) = c
         IN  SubSeq(LowerCase, i, i)
    ELSE c

RECURSIVE Lower(_)
\* str.lower
Lower(s) ==
    IF Len(s) = 0 THEN s ELSE LowerChar(SubSeq(s, 1, 1)) \o Lower(SubSeq(s, 2, Len(s)))

RECURSIVE FirstWord(_)
\* name.split()[0] of a name that does not start with white space
FirstWord(s) ==
    IF Len(s) = 0 \/ SubSeq(s, 1, 1) = " " THEN ""
    ELSE SubSeq(s, 1, 1) \o FirstWord(SubSeq(s, 2, Len(s)))

RECURSIVE LastDashPart(_)
\* s.split('-')[-1]
LastDashPart(s) ==
    IF Contains(s, "-")
    THEN LastDashPart(SubSeq(s, 2, Len(s)))
    ELSE s

\* find_executable line 94: the module name tried for a tool or executable name
clean_name(name) == Replace(LastDashPart(FirstWord(name)), ".", "_")

\* importlib.util.find_spec(m) finds a module
find_spec(h, m) == m \in h.modules

\* find_executable lines 63-68: the index of the first executable name on PATH,
\* 0 when there is none
PathHit(n, h) ==
    LET names == ToolSpecs[n].executable_names
        hits  == {i \in 1..Len(names) : which(h, names[i]) # None}
    IN  IF hits = {} THEN 0 ELSE CHOOSE i \in hits : \A j \in hits : i <= j

\* find_executable lines 79-86: the first executable file in the extra
\* locations, names outermost, None when there is none
ExtraHit(n, h) ==
    LET names == ToolSpecs[n].executable_names
        full(i, j) == extra_paths[j] \o "/" \o names[i]
        hits  == {p \in (1..Len(names)) \X (1..Len(extra_paths)) :
                     full(p[1], p[2]) \in h.files}
    IN  IF hits = {} THEN None
        ELSE LET p == CHOOSE p \in hits :
                         \A q \in hits : p[1] < q[1] \/ (p[1] = q[1] /\ p[2] <= q[2])
             IN  full(p[1], p[2])

\* find_executable line 89: the tool may be a python package
MayBePackage(n) ==
    \/ Contains(Lower(ToolSpecs[n].install_hint), "pip")
    \/ Contains(Lower(ToolSpecs[n].install_hint), "python")
    \/ Lower(ToolSpecs[n].name) \in {"theharvester", "bbot"}

\* find_executable lines 91-110: a module of the tool can be found or imported
PackageHit(n, h) ==
    LET names == <<ToolSpecs[n].name>> \o ToolSpecs[n].executable_names
    IN  \/ \E i \in 1..Len(names) :
              \/ find_spec(h, clean_name(names[i]))
              \/ find_spec(h, Lower(clean_name(names[i])))
        \/ \E name \in {"theHarvester", "theharvester", "bbot"} :
              /\ Lower(ToolSpecs[n].name) = Lower(name)
              /\ name \in h.modules

\* what one run of find_executable assigns and returns
Found(path, avail, result) ==
    [executable_path |-> path, is_available |-> avail, result |-> result]

\* ToolSpec.find_executable of the spec n on host h; path and avail are the
\* fields of the spec before the run
find_executable(n, path, avail, h) ==
    IF ToolSpecs[n].implementation # None THEN Found(path, TRUE, TRUE)
    ELSE IF PathHit(n, h) # 0
    THEN Found(which(h, ToolSpecs[n].executable_names[PathHit(n, h)]), TRUE, TRUE)
    ELSE IF ExtraHit(n, h) # None THEN Found(ExtraHit(n, h), TRUE, TRUE)
    ELSE IF MayBePackage(n) /\ PackageHit(n, h) THEN Found(path, TRUE, TRUE)
    ELSE Found(path, avail, FALSE)

\* ToolExecutor._discover_tools on specs fresh from their constructors
\* (executable_path None, is_available False)
discover_tools(h) ==
    [n \in SpecNames |-> find_executable(n, None, FALSE, h)]

\* ------------------------------------------------------------------------
\* Command synthesis (ToolExecutor.build_command_args)
\* ------------------------------------------------------------------------
\* the fallback keys with url tried before domain
FallbackKeys_url_first == <<"url", "domain", "host", "ip", "address">>

\* executor.py lines 105-110: target falls back to the first of domain, url,
\* host, ip, address that is present
FallbackKeys == <<"domain", "url", "host", "ip", "address">>

FirstFallback(params) ==
    CHOOSE i \in 1..Len(FallbackKeys) :
        /\ DictHas(params, FallbackKeys[i])
        /\ \A j \in 1..(i - 1) : ~DictHas(params, FallbackKeys[j])

NormalizeTarget(params) ==
    IF /\ ~DictHas(params, "target")
       /\ \E i \in 1..Len(FallbackKeys) : DictHas(params, FallbackKeys[i])
    THEN DictPut(params, "target",
                 DictGet(params, FallbackKeys[FirstFallback(params)]))
    ELSE params

\* executor.py lines 113-114
NormalizeDomain(params) ==
    IF ~DictHas(params, "domain") /\ DictHas(params, "target")
    THEN DictPut(params, "domain", DictGet(params, "target"))
    ELSE params

\* executor.py lines 117-122
UrlOf(val) ==
    IF StartsWith(val, "http://") \/ StartsWith(val, "https://")
    THEN val ELSE "http://" \o val

NormalizeUrl(params) ==
    IF ~DictHas(params, "url") /\ DictHas(params, "target")
    THEN DictPut(params, "url", UrlOf(DictGet(params, "target")))
    ELSE params

\* parameter normalisation, executor.py lines 104-122
NormalizeParams(params) ==
    NormalizeUrl(NormalizeDomain(NormalizeTarget(params)))

RECURSIVE SubstituteAll(_, _)
\* for key, value in norm_params.items(): arg = arg.replace("{key}", value)
SubstituteAll(arg, items) ==
    IF Len(items) = 0 THEN arg
    ELSE SubstituteAll(Replace(arg, "{" \o items[1][1] \o "}", items[1][2]),
                       Tail(items))

\* executor.py line 126: only a token holding both braces is scanned
Scanned(arg) == Contains(arg, "{") /\ Contains(arg, "}")

\* one template token after executor.py lines 126-131
SubstituteArg(arg, norm_params) ==
    IF Scanned(arg) THEN SubstituteAll(arg, norm_params) ELSE arg

\* the leftover-brace test made on the tokens that were not scanned
Unbound_unscanned(arg, norm_params) ==
    ~Scanned(arg) /\ Contains(arg, "{")

\* executor.py lines 133-134: a scanned token still holds a "{" (KeyError)
Unbound(arg, norm_params) ==
    Scanned(arg) /\ Contains(SubstituteArg(arg, norm_params), "{")

\* executor.py lines 124-134: every token of the template substituted
SubstituteTemplate(template, norm_params) ==
    [i \in 1..Len(template) |-> SubstituteArg(template[i], norm_params)]

\* the spec's name whatever discovery found
FirstArg_name_only(exe_paths, spec) == ToolSpecs[spec].name

\* executor.py line 101: the discovered executable path, else the spec's name
FirstArg(exe_paths, spec) ==
    IF exe_paths[spec] # None THEN exe_paths[spec] ELSE ToolSpecs[spec].name

\* what build_command_args returns (ok, args) or raises (error, and the
\* token the KeyError message ends with)
Built(args) == [ok |-> TRUE, error |-> "", token |-> "", args |-> args]
Raised(error, token) == [ok |-> FALSE, error |-> error, token |-> token, args |-> <<>>]

\* executor.py lines 124-136: the argv, or the KeyError of the first token
\* that still holds a "{"
BuildArgs(first, template, norm_params) ==
    IF \E i \in 1..Len(template) : Unbound(template[i], norm_params)
    THEN Raised("Missing required parameter in template",
                SubstituteArg(
                    template[CHOOSE i \in 1..Len(template) :
                                /\ Unbound(template[i], norm_params)
                                /\ \A j \in 1..(i - 1) :
                                      ~Unbound(template[j], norm_params)],
                    norm_params))
    ELSE Built(<<first>> \o SubstituteTemplate(template, norm_params))

\* build_command_args with the command looked up before the tool is checked
build_command_args_command_first(exe_paths, tool_name, command_name, params) ==
    IF \/ get_tool(tool_name) = None
       \/ command_name \notin DOMAIN ToolSpecs[get_tool(tool_name)].commands
    THEN Raised("Unknown command", "")
    ELSE BuildArgs(FirstArg(exe_paths, get_tool(tool_name)),
                   ToolSpecs[get_tool(tool_name)].commands[command_name],
                   NormalizeParams(params))

\* ToolExecutor.build_command_args; exe_paths is the discovered
\* ToolSpec.executable_path of every spec
build_command_args(exe_paths, tool_name, command_name, params) ==
    IF get_tool(tool_name) = None
    THEN Raised("Unknown tool", "")
    ELSE IF command_name \notin DOMAIN ToolSpecs[get_tool(tool_name)].commands
    THEN Raised("Unknown command", "")
    ELSE BuildArgs(FirstArg(exe_paths, get_tool(tool_name)),
                   ToolSpecs[get_tool(tool_name)].commands[command_name],
                   NormalizeParams(params))

\* ToolExecutor.get_command_string: " ".join(args), or the raised error
get_command_string(exe_paths, tool_name, command_name, params) ==
    LET b == build_command_args(exe_paths, tool_name, command_name, params)
    IN  IF b.ok THEN [ok |-> TRUE, str |-> Join(b.args, " ")]
        ELSE [ok |-> FALSE, str |-> b.error]


\* ------------------------------------------------------------------------
\* ToolSelection.get_command_string (tool_knowledge.py), the fallback used
\* when the executor cannot synthesize the command
\* ------------------------------------------------------------------------
\* index of the first "}" of s, 0 when there is none
CloseIndex(s) ==
    LET idx == { i \in 1..Len(s) : SubSeq(s, i, i) = "}" }
    IN  IF idx = {} THEN 0 ELSE CHOOSE i \in idx : \A j \in idx : i <= j

RECURSIVE Format(_, _)
\* template.format(**params) for named fields: the formatted string, or None
\* when a field has no value (KeyError) or the template is malformed
Format(t, params) ==
    IF Len(t) = 0 THEN ""
    ELSE IF SubSeq(t, 1, 1) = "{"
    THEN LET c == CloseIndex(t) IN
         IF c = 0 \/ ~DictHas(params, SubSeq(t, 2, c - 1)) THEN None
         ELSE LET rest == Format(SubSeq(t, c + 1, Len(t)), params)
              IN  IF rest = None THEN None
                  ELSE DictGet(params, SubSeq(t, 2, c - 1)) \o rest
    ELSE LET rest == Format(SubSeq(t, 2, Len(t)), params)
         IN  IF rest = None THEN None ELSE SubSeq(t, 1, 1) \o rest

\* ToolSelection.get_command_string(target); selection.parameters is {} on
\* every path of select_tool
SelectionCommandString(sel, target) ==
    LET params == <<<<"target", target>>, <<"domain", target>>, <<"url", target>>>>
        f == IF sel.template # None THEN Format(sel.template, params) ELSE None
    IN  IF f # None THEN f ELSE sel.tool \o " " \o target

\* ------------------------------------------------------------------------
\* Targets (backend/app/target/parser.py, validator.py)
\* ------------------------------------------------------------------------
\* TargetParser.parse on the raw target strings the model feeds in
TargetTable ==
    ("Example.COM" :> [is_valid |-> TRUE, normalized |-> "example.com"])
 @@ ("10.0.0.1" :> [is_valid |-> TRUE, normalized |-> "10.0.0.1"])
 @@ ("agency.gov" :> [is_valid |-> TRUE, normalized |-> "agency.gov"])
 @@ ("not a target" :> [is_valid |-> FALSE, normalized |-> "not a target"])

RawTargets == DOMAIN TargetTable

parse(raw) == TargetTable[raw]

DEFAULT_BLOCKED_TLDS == <<".gov", ".mil">>

\* TargetValidator.blacklist, the lower-cased entries of config/blacklist.md
blacklist == <<"*.corp.test", "blocked.test">>

\* TargetValidator._check_single
check_single(value) ==
    /\ \A i \in 1..Len(DEFAULT_BLOCKED_TLDS) :
          ~EndsWith(value, DEFAULT_BLOCKED_TLDS[i])
    /\ \A i \in 1..Len(blacklist) :
          LET blocked == blacklist[i]
              suffix  == SubSeq(blocked, 2, Len(blocked))
          IN  IF StartsWith(blocked, "*.")
              THEN ~(EndsWith(value, suffix)
                     \/ value = SubSeq(suffix, 2, Len(suffix)))
              ELSE value # blocked /\ ~EndsWith(value, "." \o blocked)

\* TargetValidator.is_allowed
is_allowed(parsed) == parsed.is_valid /\ check_single(parsed.normalized)


\* ------------------------------------------------------------------------
\* Sessions (backend/app/schemas/session.py)
\* ------------------------------------------------------------------------
SessionIds == {"s1", "s2"}

\* AgentMode
Modes == {"hitl", "auto"}

\* RiskLevel
RiskLevels == {"low", "medium", "high", "critical"}

\* SessionState.pending_action = None
NoAction ==
    [action_id |-> 0, tool_name |-> None, target |-> None,
     command |-> None, risk_level |-> None]

\* PendingAction(...); action_id is the uuid4 the constructor draws
PendingAction(id, tool_name, target, command, risk_level) ==
    [action_id |-> id, tool_name |-> tool_name, target |-> target,
     command |-> command, risk_level |-> risk_level]

\* SessionState(session_id=..., mode=mode)
SessionState(mode) ==
    [mode |-> mode, current_target |-> None, pending_action |-> NoAction]

\* mutant: a pending action already present is kept, the new one dropped
set_pending_action_keeps_old(session, action) ==
    IF session.pending_action # NoAction THEN session
    ELSE [session EXCEPT !.pending_action = action]

\* SessionState.set_pending_action
set_pending_action(session, action) ==
    [session EXCEPT !.pending_action = action]

\* mutant: the pending action is returned but not cleared
clear_pending_action_keeps(session) == session

\* mutant: only the command of the pending action is dropped
clear_pending_action_command_only(session) ==
    IF session.pending_action = NoAction THEN session
    ELSE [session EXCEPT !.pending_action.command = None]

\* SessionState.clear_pending_action (the new session state; the method
\* returns the old pending_action)
clear_pending_action(session) ==
    [session EXCEPT !.pending_action = NoAction]

\* mutant: switching the mode also drops the pending action
session_switch_mode_clears(session, mode) ==
    [session EXCEPT !.mode = mode, !.pending_action = NoAction]

\* SessionState.switch_mode
session_switch_mode(session, mode) == [session EXCEPT !.mode = mode]

\* ------------------------------------------------------------------------
\* Calls and what they return
\* ------------------------------------------------------------------------
\* no method of the executor has been called yet
NoCall ==
    [op |-> "none", tool |-> "", command |-> "", params |-> << >>,
     norm_params |-> << >>, spec |-> None,
     ok |-> FALSE, error |-> "", token |-> "", args |-> << >>,
     launched |-> << >>, completed |-> FALSE, in_process |-> FALSE,
     success |-> FALSE, exit_code |-> 0, parsed |-> FALSE,
     result |-> FALSE,
     execution_id |-> 0, output |-> "", timed_out |-> FALSE,
     lines |-> << >>, read |-> "", alive |-> {},
     child_exited |-> FALSE, child_code |-> 0,
     called_with |-> << >>, payload |-> "none", parsed_data |-> "none",
     table |-> << >>, rows |-> << >>, candidates |-> << >>, raised |-> FALSE,
     reply |-> None, returned_none |-> FALSE, selection |-> None,
     open_fds |-> {}]

\* the caller of the last call has taken its result
Taken == [NoCall EXCEPT !.op = "taken"]

\* no call of the executor is under way
Ready == xcall \in {NoCall, Taken}

\* the call of method op with its arguments; fields holds what it did
Called(op, tool, command, params, fields) ==
    fields @@ [op |-> op, tool |-> tool, command |-> command,
               params |-> params] @@ NoCall

\* a thread that runs no execution
IdleWorker ==
    [pc |-> "idle", call |-> NoCall, clock |-> 0, buffer |-> "",
     pending |-> "", written |-> 0]

\* a slot with no call in it
IdleReq ==
    [pc |-> "idle", op |-> None, sid |-> None, first_target |-> None,
     tasks |-> FALSE, tool |-> None, target |-> None, command |-> None,
     risk |-> None, aid |-> 0]

\* the step taken last returned nothing to a caller
NoReturn == [op |-> None, type |-> None, content |-> None]

\* a returned dict: the method that returned it, its "type" and the kind of
\* its "content"
Response(op, type, content) == [op |-> op, type |-> type, content |-> content]

\* the state after construction; Calls names the calls that may be in
\* flight (suspended at an await) at once, Hosts the hosts the program may
\* have been started on, Threads the threads that may run executions
InitWith(Calls, Hosts, Threads) ==
    /\ sessions = << >>
    /\ req = [r \in Calls |-> IdleReq]
    /\ next_action = 1
    /\ returned = NoReturn
    /\ replaced = {}
    /\ specs = load_specs.specs
    /\ aliases = load_specs.aliases
    /\ host \in Hosts
    /\ executable_path = [n \in SpecNames |-> discover_tools(host)[n].executable_path]
    /\ is_available = [n \in SpecNames |-> discover_tools(host)[n].is_available]
    /\ xcall = NoCall
    /\ execution_history = << >>
    /\ next_exec = 1
    /\ workers = [w \in Threads |-> IdleWorker]

\* the state after construction with one thread for the executions
InitFor(Calls, Hosts) == InitWith(Calls, Hosts, {"w1"})

\* the call in slot r returns resp
Return(r, resp) ==
    /\ req' = [req EXCEPT ![r] = IdleReq]
    /\ returned' = resp


\* ------------------------------------------------------------------------
\* Execution (ToolExecutor.execute_tool, ToolExecutor.execute)
\* ------------------------------------------------------------------------
\* index of the first ":" of s, 0 when there is none
ColonIndex(s) ==
    LET idx == { i \in 1..Len(s) : SubSeq(s, i, i) = ":" }
    IN  IF idx = {} THEN 0 ELSE CHOOSE i \in idx : \A j \in idx : i <= j

\* ToolExecutor.execute up to the launch: what the call runs.
\*   "unknown_tool"    no spec: failure result, nothing runs
\*   "implementation"  the in-process routine runs (_run_implementation)
\*   "error"           build_command_args raised: failure result, nothing runs
\*   "subprocess"      subprocess.run(args)
execute(exe_paths, tool_name, command_name, params) ==
    LET spec == get_tool(tool_name) IN
    IF spec = None
    THEN [kind |-> "unknown_tool", args |-> <<>>, error |-> "Unknown tool"]
    ELSE IF ToolSpecs[spec].implementation # None /\ exe_paths[spec] = None
    THEN [kind |-> "implementation", args |-> <<>>, error |-> ""]
    ELSE LET b == build_command_args(exe_paths, tool_name, command_name, params)
         IN  IF b.ok
             THEN [kind |-> "subprocess", args |-> b.args, error |-> ""]
             ELSE [kind |-> "error", args |-> <<>>, error |-> b.error]

\* ToolExecutor.execute_tool as the orchestrator calls it: no command_name
\* keyword, so the command is "default" unless the tool name carries one
execute_tool(exe_paths, tool_name, parameters) ==
    LET c == ColonIndex(tool_name) IN
    IF c # 0
    THEN execute(exe_paths, SubSeq(tool_name, 1, c - 1),
                 SubSeq(tool_name, c + 1, Len(tool_name)), parameters)
    ELSE execute(exe_paths, tool_name, "default", parameters)

\* whether a run of that kind can report success
CanSucceed(run) == run.kind \in {"implementation", "subprocess"}

\* ------------------------------------------------------------------------
\* The methods of the executor, called on their own
\* ------------------------------------------------------------------------
\* what the environment of one execution does: subprocess.run raises
\* (TimeoutExpired once the timeout has passed, or OSError) or the child ends
\* with returncode; Popen raises OSError; the routine of an in-process tool
\* returns a payload or raises
ExitCodes == {0, 1, 2}
Payloads == {"success_true", "success_false", "dict", "value", "raises"}
RunOutcomes ==
    [raised : {"none"}, returncode : ExitCodes, payload : {"none"}]
    \cup [raised : {"TimeoutExpired", "OSError"}, returncode : {0},
          payload : {"none"}]
    \cup [raised : {"none"}, returncode : {0}, payload : Payloads]

\* the outcomes that can happen to a run of that kind in that mode
Applies(kind, op, outcome) ==
    CASE kind = "implementation" -> outcome.payload # "none"
      [] kind = "subprocess" /\ op = "execute" -> outcome.payload = "none"
      [] kind = "subprocess" /\ op = "execute_streaming" ->
            /\ outcome.payload = "none"
            /\ outcome.returncode = 0
            /\ outcome.raised # "TimeoutExpired"
      [] OTHER -> outcome = [raised |-> "none", returncode |-> 0,
                             payload |-> "none"]

\* the operating system can start argv0 on host h: a path that discovery
\* found, or a bare name on PATH
Launchable(h, argv0) ==
    \/ argv0 \in h.path
    \/ argv0 \in h.files
    \/ \E exe_name \in h.path : argv0 = which(h, exe_name)

\* inspect.signature(func).parameters of the routine of an in-process tool:
\* technology_detection(url) of web_tools.py; for web_search, the key of its
\* command template
Signature(spec) ==
    IF spec = "technology_detection" THEN {"url"} ELSE {"query"}

\* valid_params = {k: v for k, v in params.items() if k in sig.parameters}
valid_params(spec, params) ==
    SelectSeq(params, LAMBDA p : p[1] \in Signature(spec))

\* the names of the parameters supplied
ParamNames(params) == { params[i][1] : i \in DOMAIN params }

\* an in-process run that reports success whatever the routine returned
RunImplementation_always_success(spec, params, payload) ==
    IF payload = "raises" \/ ~(Signature(spec) \subseteq ParamNames(params))
    THEN [in_process |-> TRUE, success |-> FALSE, parsed |-> FALSE,
          error |-> "Implementation Error",
          called_with |-> valid_params(spec, params)]
    ELSE [in_process |-> TRUE, success |-> TRUE,
          parsed |-> TRUE, payload |-> payload,
          parsed_data |-> IF payload = "value" THEN "wrapped" ELSE "payload",
          called_with |-> valid_params(spec, params)]

\* ToolExecutor._run_implementation: the routine runs in this process, no
\* child is started. The call raises when a parameter of the signature is
\* not supplied (none of them has a default) or when the routine raises;
\* otherwise the routine returns a dict with a "success" entry
\* (success_true, success_false), a dict without one (dict), or any other
\* value (value). parsed_data is the returned dict itself ("payload"), or
\* {"result": value} ("wrapped")
RunImplementation(spec, params, payload) ==
    IF payload = "raises" \/ ~(Signature(spec) \subseteq ParamNames(params))
    THEN [in_process |-> TRUE, success |-> FALSE, parsed |-> FALSE,
          error |-> "Implementation Error",
          called_with |-> valid_params(spec, params)]
    ELSE [in_process |-> TRUE, success |-> payload # "success_false",
          parsed |-> TRUE, payload |-> payload,
          parsed_data |-> IF payload = "value" THEN "wrapped" ELSE "payload",
          called_with |-> valid_params(spec, params)]

\* whether _run_implementation got as far as its _record_history call
ImplementationRecorded(spec, params, payload) ==
    RunImplementation(spec, params, payload).parsed

\* the entry _record_history builds from a result; tool, command, params,
\* agent, session_id, time and elapsed are copies of values the entry does
\* not share with any other
HistoryEntry(result) == [id |-> result.execution_id, success |-> result.success]

\* an append that takes the place of the newest entry
record_history_overwrites(history, result) ==
    IF Len(history) = 0 THEN << HistoryEntry(result) >>
    ELSE [history EXCEPT ![Len(history)] = HistoryEntry(result)]

\* ToolExecutor._record_history: self.execution_history.append({...})
record_history(history, result) == Append(history, HistoryEntry(result))

\* no thread is inside execute or execute_streaming
Quiet == Ready /\ \A w \in DOMAIN workers : workers[w].pc = "idle"

\* ToolExecutor.get_tool(name)
GetTool(name) ==
    /\ Quiet
    /\ xcall' = Called("get_tool", name, "", << >>, [spec |-> get_tool(name)])
    /\ UNCHANGED <<orchestrator_vars, specs, aliases, executable_path,
                   is_available, host, run_vars>>

\* ToolExecutor.build_command_args(tool_name, command_name, params): what it
\* returns or raises, and the normalised copy of params it substituted from
BuildCommandArgs(tool_name, command_name, params) ==
    /\ Quiet
    /\ xcall' = Called("build_command_args", tool_name, command_name, params,
                       [norm_params |->
                            IF build_command_args(executable_path, tool_name,
                                   command_name, params).error
                                  \in {"Unknown tool", "Unknown command"}
                            THEN << >> ELSE NormalizeParams(params),
                        spec |-> get_tool(tool_name)]
                       @@ build_command_args(executable_path, tool_name,
                                             command_name, params))
    /\ UNCHANGED <<orchestrator_vars, specs, aliases, executable_path,
                   is_available, host, run_vars>>

\* what the except clause of execute makes of the exception subprocess.run
\* raised
CapturedError(args, raised) ==
    [launched |-> args, completed |-> FALSE, success |-> FALSE,
     exit_code |-> 0, parsed |-> FALSE, error |-> raised,
     timed_out |-> raised = "TimeoutExpired"]

\* captured mode with success decided by a zero return code
RunCaptured_zero_only(args, success_codes, outcome) ==
    IF outcome.raised # "none" THEN CapturedError(args, outcome.raised)
    ELSE IF ~Launchable(host, args[1]) THEN CapturedError(args, "OSError")
    ELSE [launched |-> args, completed |-> TRUE,
          success |-> outcome.returncode = 0,
          exit_code |-> outcome.returncode,
          parsed |-> outcome.returncode = 0]

\* executor.py lines 166-198 for the argument vector args: subprocess.run is
\* called with it; the result is built from the return code when the child
\* ends, and by the except clause when subprocess.run raises
RunCaptured(args, success_codes, outcome) ==
    IF outcome.raised # "none" THEN CapturedError(args, outcome.raised)
    ELSE IF ~Launchable(host, args[1]) THEN CapturedError(args, "OSError")
    ELSE [launched |-> args, completed |-> TRUE,
          success |-> outcome.returncode \in success_codes,
          exit_code |-> outcome.returncode,
          parsed |-> outcome.returncode \in success_codes]

\* the ToolResult of execute(tool_name, command_name, params) under outcome;
\* id is its execution_id
ExecuteResult(id, tool_name, command_name, params, outcome) ==
    LET run == execute(executable_path, tool_name, command_name, params)
    IN  Called("execute", tool_name, command_name, params,
               [spec |-> get_tool(tool_name), execution_id |-> id] @@
               CASE run.kind = "unknown_tool" -> [error |-> run.error]
                 [] run.kind = "implementation" ->
                       RunImplementation(get_tool(tool_name), params,
                                         outcome.payload)
                 [] run.kind = "error" -> [error |-> run.error]
                 [] run.kind = "subprocess" ->
                       RunCaptured(run.args,
                                   ToolSpecs[get_tool(tool_name)]
                                       .success_codes[command_name],
                                   outcome))

\* whether the path execute and execute_streaming take passes a
\* _record_history call: not the return for an unknown tool, and not the
\* except clause of _run_implementation
Records(tool_name, command_name, params, outcome) ==
    LET run == execute(executable_path, tool_name, command_name, params)
    IN  CASE run.kind = "unknown_tool" -> FALSE
          [] run.kind = "implementation" ->
                ImplementationRecorded(get_tool(tool_name), params,
                                       outcome.payload)
          [] OTHER -> TRUE

\* thread w holds result and is about to call _record_history
AtRecord(w, result) ==
    [workers EXCEPT ![w] = [IdleWorker EXCEPT !.pc = "record", !.call = result]]

\* ToolExecutor.execute(tool_name, command_name, params) on thread w, captured
\* mode, up to its _record_history call, or up to its return when it makes
\* none
Execute(w, tool_name, command_name, params, outcome) ==
    /\ Ready
    /\ workers[w].pc = "idle"
    /\ next_exec <= MaxExecutions
    /\ Applies(execute(executable_path, tool_name, command_name, params).kind,
               "execute", outcome)
    /\ next_exec' = next_exec + 1
    /\ IF Records(tool_name, command_name, params, outcome)
       THEN /\ workers' = AtRecord(w, ExecuteResult(next_exec, tool_name,
                                       command_name, params, outcome))
            /\ xcall' = xcall
       ELSE /\ xcall' = ExecuteResult(next_exec, tool_name, command_name,
                                      params, outcome)
            /\ workers' = workers
    /\ UNCHANGED <<orchestrator_vars, specs, aliases, executable_path,
                   is_available, host, execution_history>>

\* thread w appends its result to the history and returns it
RecordHistory(w) ==
    /\ workers[w].pc = "record"
    /\ execution_history' = record_history(execution_history, workers[w].call)
    /\ xcall' = workers[w].call
    /\ workers' = [workers EXCEPT ![w] = IdleWorker]
    /\ UNCHANGED <<orchestrator_vars, specs, aliases, executable_path,
                   is_available, host, next_exec>>

\* ------------------------------------------------------------------------
\* Streaming mode: _stream_pty, one iteration of its loop at a time
\* ------------------------------------------------------------------------
\* if buffer: yield "".join(buffer)
Flush(buffer, lines) == IF buffer = "" THEN lines ELSE Append(lines, buffer)

RECURSIVE Feed_no_flush(_, _, _)
\* the loop over the characters with a CR or LF that empties the buffer
\* without yielding it
Feed_no_flush(buffer, lines, data) ==
    IF data = "" THEN [buffer |-> buffer, lines |-> lines]
    ELSE IF SubSeq(data, 1, 1) \in {"\r", "\n"}
    THEN Feed_no_flush("", lines, SubSeq(data, 2, Len(data)))
    ELSE Feed_no_flush(buffer \o SubSeq(data, 1, 1), lines,
                       SubSeq(data, 2, Len(data)))

RECURSIVE Feed(_, _, _)
\* executor.py lines 381-387, for char in text: a CR or LF yields the buffer
\* as a line when it is not empty and empties it, any other character is
\* appended to the buffer
Feed(buffer, lines, data) ==
    IF data = "" THEN [buffer |-> buffer, lines |-> lines]
    ELSE IF SubSeq(data, 1, 1) \in {"\r", "\n"}
    THEN Feed("", Flush(buffer, lines), SubSeq(data, 2, Len(data)))
    ELSE Feed(buffer \o SubSeq(data, 1, 1), lines, SubSeq(data, 2, Len(data)))

\* a streamed result whose success follows the exit status of the child
StreamResult_by_exit_status(call) ==
    [call EXCEPT !.completed = TRUE,
                 !.success = ~(call.child_exited /\ call.child_code # 0),
                 !.parsed = TRUE,
                 !.output = Join(call.lines, "\n")]

\* executor.py lines 245-263: the loop over _stream_pty has ended without an
\* exception; success=True, output="\n".join(output_lines), the parser runs
StreamResult(call) ==
    [call EXCEPT !.completed = TRUE, !.success = TRUE, !.parsed = TRUE,
                 !.output = Join(call.lines, "\n")]

\* executor.py lines 266-271: the except clause of execute_streaming
StreamError(call, error) ==
    [call EXCEPT !.completed = FALSE, !.success = FALSE, !.error = error]

\* the descriptors of pty.openpty() (line 355) still open once Popen has
\* returned or raised: os.close(slave_fd) at line 363 runs only when Popen
\* returned; the win32 branch opens no pseudo-terminal
OpenAfterPopen(platform, started) ==
    IF platform = "win32" THEN {}
    ELSE IF started THEN {"master_fd"}
    ELSE {"master_fd", "slave_fd"}

\* the finally clause of _stream_pty, line 394: os.close(master_fd)
CloseMaster(open_fds) == open_fds \ {"master_fd"}

\* the partial result of a streamed run of args whose child has started
Streaming(id, tool_name, command_name, params, args) ==
    Called("execute_streaming", tool_name, command_name, params,
           [spec |-> get_tool(tool_name), execution_id |-> id,
            launched |-> args, alive |-> {"child"},
            open_fds |-> OpenAfterPopen(host.platform, TRUE)])

\* the ToolResult of an execute_streaming call that starts no child. When
\* Popen raises on the pty path, the finally clause of _stream_pty reads
\* buffer before its first assignment, and the exception that reaches
\* execute_streaming is that UnboundLocalError
ExecuteStreamingResult(id, tool_name, command_name, params, outcome) ==
    LET run == execute(executable_path, tool_name, command_name, params)
    IN  Called("execute_streaming", tool_name, command_name, params,
               [spec |-> get_tool(tool_name), execution_id |-> id] @@
               CASE run.kind = "unknown_tool" -> [error |-> run.error]
                 [] run.kind = "implementation" ->
                       RunImplementation(get_tool(tool_name), params,
                                         outcome.payload)
                 [] run.kind = "error" -> [error |-> run.error]
                 [] run.kind = "subprocess" ->
                       [launched |-> run.args,
                        open_fds |-> CloseMaster(
                                       OpenAfterPopen(host.platform, FALSE)),
                        error |-> IF host.platform = "win32" THEN "OSError"
                                  ELSE "UnboundLocalError"])

\* Popen starts the child of a streamed run
Starts(tool_name, command_name, params, outcome) ==
    LET run == execute(executable_path, tool_name, command_name, params)
    IN  /\ run.kind = "subprocess"
        /\ outcome.raised = "none"
        /\ Launchable(host, run.args[1])

\* ToolExecutor.execute_streaming(tool_name, command_name, params) on thread
\* w, up to the start of the child, or up to its _record_history call or its
\* return when no child starts
ExecuteStreaming(w, tool_name, command_name, params, outcome) ==
    /\ Ready
    /\ workers[w].pc = "idle"
    /\ next_exec <= MaxExecutions
    /\ Applies(execute(executable_path, tool_name, command_name, params).kind,
               "execute_streaming", outcome)
    /\ next_exec' = next_exec + 1
    /\ IF Starts(tool_name, command_name, params, outcome)
       THEN /\ workers' =
                 [workers EXCEPT ![w] =
                     [IdleWorker EXCEPT
                        !.pc = "stream",
                        !.call = Streaming(next_exec, tool_name, command_name,
                                     params,
                                     execute(executable_path, tool_name,
                                             command_name, params).args)]]
            /\ xcall' = xcall
       ELSE IF Records(tool_name, command_name, params, outcome)
       THEN /\ workers' = AtRecord(w, ExecuteStreamingResult(next_exec,
                                       tool_name, command_name, params, outcome))
            /\ xcall' = xcall
       ELSE /\ xcall' = ExecuteStreamingResult(next_exec, tool_name,
                                      command_name, params, outcome)
            /\ workers' = workers
    /\ UNCHANGED <<orchestrator_vars, specs, aliases, executable_path,
                   is_available, host, execution_history>>

\* the frame of thread w after os.read has returned everything pending
AfterRead(f) ==
    [f EXCEPT !.pending = "",
              !.buffer = Feed(f.buffer, f.call.lines, f.pending).buffer,
              !.call = [f.call EXCEPT
                          !.lines = Feed(f.buffer, f.call.lines, f.pending).lines,
                          !.read = @ \o f.pending]]

\* the result when the timeout test of line 369 is true: process.terminate(),
\* yield "[TIMEOUT]", break, and then the finally clause. terminate() sends
\* SIGTERM to the child alone; obeys tells whether the child dies of it
AfterTimeout(f, obeys) ==
    [f.call EXCEPT !.timed_out = TRUE,
                   !.open_fds = CloseMaster(@),
                   !.alive = IF obeys THEN @ \ {"child"} ELSE @,
                   !.lines = Flush(f.buffer, Append(@, "[TIMEOUT]"))]

\* the result when the loop breaks on end of file or on the exit of the
\* child (lines 378, 389, 392), and then the finally clause
AfterBreak(f) ==
    [f.call EXCEPT !.open_fds = CloseMaster(@), !.lines = Flush(f.buffer, @)]

\* one iteration of the loop of _stream_pty on the pty path (lines 368-392).
\* An iteration that finds the child running and nothing to read changes
\* nothing
StreamStep(w, obeys) ==
    /\ workers[w].pc = "stream"
    /\ host.platform # "win32"
    /\ \/ workers[w].clock > StreamTimeout
       \/ workers[w].pending # ""
       \/ "child" \notin workers[w].call.alive
    /\ workers' =
         IF workers[w].clock > StreamTimeout
         THEN AtRecord(w, StreamResult(AfterTimeout(workers[w], obeys)))
         ELSE IF workers[w].pending # ""
         THEN [workers EXCEPT ![w] = AfterRead(workers[w])]
         ELSE AtRecord(w, StreamResult(AfterBreak(workers[w])))
    /\ UNCHANGED <<orchestrator_vars, specs, aliases, executable_path,
                   is_available, host, xcall, execution_history, next_exec>>

\* os.read raises an OSError other than EIO (line 390): the finally clause
\* yields the buffer, the exception reaches execute_streaming
StreamReadFails(w) ==
    /\ workers[w].pc = "stream"
    /\ host.platform # "win32"
    /\ workers[w].clock <= StreamTimeout
    /\ workers' = AtRecord(w, StreamError(AfterBreak(workers[w]), "OSError"))
    /\ UNCHANGED <<orchestrator_vars, specs, aliases, executable_path,
                   is_available, host, xcall, execution_history, next_exec>>

RECURSIVE rstrip(_)
\* str.rstrip()
rstrip(s) ==
    IF s = "" THEN s
    ELSE IF SubSeq(s, Len(s), Len(s)) \in {" ", "\t", "\n", "\r"}
    THEN rstrip(SubSeq(s, 1, Len(s) - 1))
    ELSE s

RECURSIVE LineEnd(_, _)
\* the index of the first CR or LF of s at or after i, 0 when there is none
LineEnd(s, i) ==
    IF i > Len(s) THEN 0
    ELSE IF SubSeq(s, i, i) \in {"\r", "\n"} THEN i
    ELSE LineEnd(s, i + 1)

\* the number of characters readline takes for the line that ends at e: a
\* CR LF pair is one line end
Consumed(s, e) ==
    IF SubSeq(s, e, e) = "\r" /\ e < Len(s) /\ SubSeq(s, e + 1, e + 1) = "\n"
    THEN e + 1 ELSE e

\* readline can tell that the line that ends at e is complete: after a CR
\* it needs the next character, or the end of the pipe
LineComplete(s, e, alive) ==
    e # 0 /\ (SubSeq(s, e, e) = "\n" \/ e < Len(s) \/ alive = {})

\* the frame after readline has returned the line that ends at e
AfterLine(f, e) ==
    [f EXCEPT !.pending = SubSeq(@, Consumed(@, e) + 1, Len(@)),
              !.call = [f.call EXCEPT
                          !.lines = Append(@, rstrip(SubSeq(f.pending, 1, e))),
                          !.read = @ \o SubSeq(f.pending, 1,
                                               Consumed(f.pending, e))]]

\* the result at the end of the pipe: the text left is the last line, then
\* readline returns '' and process.wait() returns
AfterEof(f) ==
    [f.call EXCEPT !.lines = IF f.pending = "" THEN @
                             ELSE Append(@, rstrip(f.pending)),
                   !.read = @ \o f.pending]

\* one iteration of the loop of the win32 branch (lines 345-351):
\* readline returns a line, or '' at the end of the pipe; it blocks while
\* the pipe is open and holds no complete line, and no timeout is tested
StreamStepWin32(w) ==
    /\ workers[w].pc = "stream"
    /\ host.platform = "win32"
    /\ \/ LineComplete(workers[w].pending, LineEnd(workers[w].pending, 1),
                       workers[w].call.alive)
       \/ workers[w].call.alive = {}
    /\ workers' =
         IF LineComplete(workers[w].pending, LineEnd(workers[w].pending, 1),
                         workers[w].call.alive)
         THEN [workers EXCEPT ![w] =
                  AfterLine(workers[w], LineEnd(workers[w].pending, 1))]
         ELSE AtRecord(w, StreamResult(AfterEof(workers[w])))
    /\ UNCHANGED <<orchestrator_vars, specs, aliases, executable_path,
                   is_available, host, xcall, execution_history, next_exec>>

\* time passes while thread w streams; past the timeout the clock is no
\* longer told apart
Tick(w) ==
    /\ workers[w].pc = "stream"
    /\ workers[w].clock <= StreamTimeout
    /\ workers' = [workers EXCEPT ![w].clock = @ + 1]
    /\ UNCHANGED <<orchestrator_vars, specs, aliases, executable_path,
                   is_available, host, xcall, execution_history, next_exec>>

\* a process of the group of the child writes character c to the terminal
ChildWrites(w, c) ==
    /\ workers[w].pc = "stream"
    /\ workers[w].call.alive # {}
    /\ workers[w].written < MaxOutput
    /\ workers' = [workers EXCEPT ![w].pending = @ \o c,
                                  ![w].written = @ + 1]
    /\ UNCHANGED <<orchestrator_vars, specs, aliases, executable_path,
                   is_available, host, xcall, execution_history, next_exec>>

\* the child starts a process of its own, in its session and process group
\* (preexec_fn=os.setsid makes the child the leader of both)
ChildForks(w) ==
    /\ workers[w].pc = "stream"
    /\ workers[w].call.alive = {"child"}
    /\ workers' = [workers EXCEPT ![w].call.alive = {"child", "descendant"}]
    /\ UNCHANGED <<orchestrator_vars, specs, aliases, executable_path,
                   is_available, host, xcall, execution_history, next_exec>>

\* the child ends with exit status code
ChildExits(w, code) ==
    /\ workers[w].pc = "stream"
    /\ "child" \in workers[w].call.alive
    /\ workers' = [workers EXCEPT ![w].call.alive = @ \ {"child"},
                                  ![w].call.child_exited = TRUE,
                                  ![w].call.child_code = code]
    /\ UNCHANGED <<orchestrator_vars, specs, aliases, executable_path,
                   is_available, host, xcall, execution_history, next_exec>>

\* a run of find_executable that starts by clearing the path found before
FindExecutable_clears_path(n) ==
    /\ Quiet
    /\ n \in specs
    /\ LET f == find_executable(n, None, is_available[n], host)
       IN  /\ executable_path' = [executable_path EXCEPT ![n] = None]
           /\ is_available' = [is_available EXCEPT ![n] = f.is_available]
           /\ xcall' = Called("find_executable", n, "", << >>,
                              [result |-> f.result])
    /\ UNCHANGED <<orchestrator_vars, specs, aliases, host, run_vars>>

\* spec.find_executable() of the registered spec n, run again on this host
FindExecutable(n) ==
    /\ Quiet
    /\ n \in specs
    /\ LET f == find_executable(n, executable_path[n], is_available[n], host)
       IN  /\ executable_path' = [executable_path EXCEPT ![n] = f.executable_path]
           /\ is_available' = [is_available EXCEPT ![n] = f.is_available]
           /\ xcall' = Called("find_executable", n, "", << >>,
                              [result |-> f.result])
    /\ UNCHANGED <<orchestrator_vars, specs, aliases, host, run_vars>>

\* the body of the loop of _load_specs for the spec named n
Register(n) ==
    /\ Quiet
    /\ specs' = register([specs |-> specs, aliases |-> aliases], n).specs
    /\ aliases' = register([specs |-> specs, aliases |-> aliases], n).aliases
    /\ xcall' = Called("register", n, "", << >>, [spec |-> n])
    /\ UNCHANGED <<orchestrator_vars, executable_path, is_available, host,
                   run_vars>>

\* the caller has taken the result of the last call; the executor is ready
\* for the next one
ResultTaken ==
    /\ ~Ready
    /\ xcall' = Taken
    /\ UNCHANGED <<orchestrator_vars, specs, aliases, executable_path,
                   is_available, host, run_vars>>

\* ------------------------------------------------------------------------
\* PentestOrchestrator (backend/app/agents/orchestrator.py)
\* ------------------------------------------------------------------------
\* mutant: the mode is switched in every session
get_or_create_session_switches_all(ss, sid, mode) ==
    IF sid \in DOMAIN ss
    THEN [o \in DOMAIN ss |-> IF ss[o].mode # mode
                              THEN session_switch_mode(ss[o], mode)
                              ELSE ss[o]]
    ELSE (sid :> SessionState(mode)) @@ ss

\* PentestOrchestrator.get_or_create_session, for the session id it ends up
\* with (the given one, or a fresh uuid4 when none is given)
get_or_create_session(ss, sid, mode) ==
    IF sid \in DOMAIN ss
    THEN IF ss[sid].mode # mode
         THEN [ss EXCEPT ![sid] = session_switch_mode(ss[sid], mode)]
         ELSE ss
    ELSE (sid :> SessionState(mode)) @@ ss

\* mutant: only the critical level counts
is_critical_only_critical(risk_level) == risk_level = "critical"

\* handle_request lines 210-211
is_critical(risk_level) == risk_level \in {"high", "critical"}

\* mutant: the mode alone decides
needs_confirmation_mode_only(mode, risk_level) == mode = "hitl"

\* mutant: the risk alone decides
needs_confirmation_risk_only(mode, risk_level) == is_critical(risk_level)

\* mutant: every action needs confirmation
needs_confirmation_always(mode, risk_level) == TRUE

needs_confirmation(mode, risk_level) ==
    mode = "hitl" \/ is_critical(risk_level)

\* session.current_target or "target"
TargetOr(session, default) ==
    IF session.current_target # None THEN session.current_target ELSE default

\* handle_request lines 213-223: the command string shown, stored and
\* mirrored for a selection
command_str(exe_paths, sel, session) ==
    LET tgt == TargetOr(session, "target")
        cmd == IF sel.command \in {None, ""} THEN "default" ELSE sel.command
        c   == get_command_string(exe_paths, sel.tool, cmd, <<<<"target", tgt>>>>)
    IN  IF c.ok THEN c.str ELSE SelectionCommandString(sel, tgt)

\* a host with nothing installed, and one with nmap on PATH
NothingFound == Host({}, {}, {})
NmapFound == Host({"nmap"}, {}, {})

\* a selection as tool_rag.select_tool returns it
Selection(tool, command, risk, template) ==
    [tool |-> tool, command |-> command, risk |-> risk, template |-> template]

\* the selections the specifications feed in
Selections ==
    { Selection("nmap", "quick", k, "nmap_scan -T4 -F -Pn {target}") :
        k \in RiskLevels }
    \cup { Selection("sqlmap", None, k, None) : k \in {"low", "critical"} }

SelectionsInterleaved ==
    { Selection("nmap", "quick", k, None) : k \in {"low", "high"} }

\* handle_request lines 76-93: up to the await of the model's reply.
\* session_id = None stands for the absent argument.
HandleRequest(r, session_id, mode) ==
    /\ req[r].pc = "idle"
    /\ IF mode \notin Modes
       THEN \* AgentMode(mode) raises ValueError
            /\ Return(r, Response("handle_request", "raised", "ValueError"))
            /\ UNCHANGED sessions
       ELSE \E sid \in (IF session_id = None THEN SessionIds \ DOMAIN sessions
                        ELSE {session_id}) :
            /\ sessions' = get_or_create_session(sessions, sid, mode)
            /\ req' = [req EXCEPT ![r] =
                         [IdleReq EXCEPT !.pc = "llm", !.op = "handle_request",
                                         !.sid = sid]]
            /\ returned' = NoReturn
    /\ UNCHANGED <<next_action, replaced, executor_vars>>

\* handle_request lines 140-176: from the task list to the await of the
\* semantic search
AfterTargets(r, first_target, tasks) ==
    IF ~tasks
    THEN Return(r, Response("handle_request", "response", "display_response"))
    ELSE /\ req' = [req EXCEPT ![r].pc = "search",
                               ![r].first_target = first_target]
         /\ returned' = NoReturn

\* handle_request lines 94-136: the model's reply arrives; parsed_json is
\* whether it holds JSON, first_target its targets[0] (None: no targets),
\* tasks whether its task list is non-empty
LLMReply(r, parsed_json, first_target, tasks) ==
    /\ req[r].pc = "llm"
    /\ LET sid == req[r].sid IN
       IF ~parsed_json
       THEN /\ Return(r, Response("handle_request", "error", "planning_failed"))
            /\ UNCHANGED sessions
       ELSE IF first_target # None /\ parse(first_target).is_valid
       THEN IF ~is_allowed(parse(first_target))
            THEN /\ Return(r, Response("handle_request", "error", "Target blocked"))
                 /\ UNCHANGED sessions
            ELSE /\ sessions' = [sessions EXCEPT ![sid].current_target =
                                    parse(first_target).normalized]
                 /\ req' = [req EXCEPT ![r].pc = "store_target",
                                       ![r].first_target = first_target,
                                       ![r].tasks = tasks]
                 /\ returned' = NoReturn
       ELSE /\ AfterTargets(r, first_target, tasks)
            /\ UNCHANGED sessions
    /\ UNCHANGED <<next_action, replaced, executor_vars>>

\* handle_request lines 131-176: memory_manager.store_target returns or
\* raises (the exception is caught and printed), then the task list
StoreTargetDone(r) ==
    /\ req[r].pc = "store_target"
    /\ AfterTargets(r, req[r].first_target, req[r].tasks)
    /\ UNCHANGED <<sessions, next_action, replaced, executor_vars>>

\* what the embedding backend does with the request of ToolRAG._get_embedding:
\* it answers with a vector, answers without one, or the request fails
\* (connection error, error status: httpx raises)
Embeddings == {"vector", "no_vector", "raises"}

\* what the pgvector query of ToolRAG.search does: rows, no rows, or it raises
Queries == {"rows", "no_rows", "raises"}

\* ToolRAG.search: "candidates", "empty" (an empty list), or "raise"; neither
\* _get_embedding nor search catches an exception
search(embedding, query) ==
    IF embedding = "raises" THEN "raise"
    ELSE IF embedding = "no_vector" THEN "empty"
    ELSE IF query = "raises" THEN "raise"
    ELSE IF query = "no_rows" THEN "empty"
    ELSE "candidates"

\* handle_request lines 176-188: tool_rag.search returns candidates or an
\* empty list, or raises (nothing in handle_request catches it)
SearchDone(r, embedding, query) ==
    /\ req[r].pc = "search"
    /\ CASE search(embedding, query) = "candidates" ->
              /\ req' = [req EXCEPT ![r].pc = "select"]
              /\ returned' = NoReturn
         [] search(embedding, query) = "empty" ->
              Return(r, Response("handle_request", "response", "display_response"))
         [] search(embedding, query) = "raise" ->
              Return(r, Response("handle_request", "raised", "exception"))
    /\ UNCHANGED <<sessions, next_action, replaced, executor_vars>>

\* handle_request lines 225-241: the action is stored for confirmation
AwaitConfirmation(r, sel, cmd) ==
    LET sid     == req[r].sid
        session == sessions[sid]
        pending == PendingAction(
                     next_action, sel.tool,
                     TargetOr(session,
                              IF req[r].first_target # None
                              THEN req[r].first_target ELSE "unknown"),
                     cmd, sel.risk)
    IN  /\ next_action <= MaxActions
        /\ sessions' = [sessions EXCEPT ![sid] =
                           set_pending_action(session, pending)]
        /\ next_action' = next_action + 1
        /\ replaced' = IF session.pending_action # NoAction
                       THEN replaced \cup {session.pending_action.action_id}
                       ELSE replaced
        /\ Return(r, Response("handle_request", "confirmation_required", "display_response"))

\* handle_request lines 243-257: the command goes to the terminal mirror
\* (terminal_manager.write_input) and the tool to the executor
\* (run_in_executor of executor.execute_tool); the call awaits the result
AutoExecute(r, sel, cmd) ==
    /\ req' = [req EXCEPT ![r].pc = "exec",
                          ![r].tool = sel.tool,
                          ![r].target = TargetOr(sessions[req[r].sid], "target"),
                          ![r].command = cmd,
                          ![r].risk = sel.risk]
    /\ returned' = NoReturn
    /\ UNCHANGED <<sessions, next_action, replaced>>

\* handle_request lines 188-257: tool_rag.select_tool returns the selection
\* sel; the confirmation gate
SelectDone(r, sel) ==
    /\ req[r].pc = "select"
    /\ LET session == sessions[req[r].sid]
           cmd     == command_str(executable_path, sel, session)
       IN  IF needs_confirmation(session.mode, sel.risk)
           THEN AwaitConfirmation(r, sel, cmd)
           ELSE AutoExecute(r, sel, cmd)
    /\ UNCHANGED executor_vars

\* handle_request line 188: tool_rag.select_tool raises (the request to the
\* reasoning service is outside its try block)
SelectRaises(r) ==
    /\ req[r].pc = "select"
    /\ Return(r, Response("handle_request", "raised", "exception"))
    /\ UNCHANGED <<sessions, next_action, replaced, executor_vars>>

\* handle_request lines 258-297: the executor's result arrives.
\*   "success"       result.success, stored and analysed
\*   "failure"       not result.success
\*   "store_raises"  result.success and memory_manager.store_structured raises
ExecDone(r, outcome) ==
    /\ req[r].pc = "exec"
    /\ LET run == execute_tool(executable_path, req[r].tool,
                               <<<<"target", req[r].target>>>>)
       IN  /\ outcome \in {"success", "store_raises"} => CanSucceed(run)
           /\ Return(r, Response("handle_request", "response",
                                 IF outcome = "store_raises"
                                 THEN "Auto-executed (Analysis failed)"
                                 ELSE "Auto-executing"))
    /\ UNCHANGED <<sessions, next_action, replaced, executor_vars>>

\* edited_command if edited_command else pending.command
ChosenCommand(edited_command, pending) ==
    IF edited_command \notin {None, ""} THEN edited_command
    ELSE pending.command

\* mutant: the action id is not compared
ConfirmError_any_id(ss, session_id, action_id) ==
    IF session_id \notin DOMAIN ss THEN "Session not found"
    ELSE IF ss[session_id].pending_action = NoAction
    THEN "No pending action to confirm"
    ELSE None

\* mutant: a missing pending action is not detected
ConfirmError_no_pending_check(ss, session_id, action_id) ==
    IF session_id \notin DOMAIN ss THEN "Session not found"
    ELSE IF ss[session_id].pending_action.action_id # action_id
    THEN "Action ID mismatch"
    ELSE None

\* confirm_action lines 318-342: the error the call returns before it
\* touches the session, None when the confirmation is accepted
ConfirmError(ss, session_id, action_id) ==
    IF session_id \notin DOMAIN ss THEN "Session not found"
    ELSE IF ss[session_id].pending_action = NoAction
    THEN "No pending action to confirm"
    ELSE IF ss[session_id].pending_action.action_id # action_id
    THEN "Action ID mismatch"
    ELSE None

\* confirm_action lines 318-373: up to the await of the executor's result
ConfirmAction(r, session_id, action_id, is_approved, edited_command) ==
    /\ req[r].pc = "idle"
    /\ IF ConfirmError(sessions, session_id, action_id) # None
       THEN /\ Return(r, Response("confirm_action", "error",
                         ConfirmError(sessions, session_id, action_id)))
            /\ UNCHANGED sessions
       ELSE LET pending == sessions[session_id].pending_action IN
            /\ sessions' = [sessions EXCEPT ![session_id] =
                               clear_pending_action(sessions[session_id])]
            /\ IF ~is_approved
               THEN Return(r, Response("confirm_action", "response",
                                       "Action rejected"))
               ELSE \* terminal_manager.write_input(command), then
                    \* run_in_executor of executor.execute_tool
                    /\ req' = [req EXCEPT ![r] =
                                 [IdleReq EXCEPT
                                    !.pc = "cexec", !.op = "confirm_action",
                                    !.sid = session_id,
                                    !.tool = pending.tool_name,
                                    !.target = pending.target,
                                    !.command = ChosenCommand(edited_command,
                                                              pending),
                                    !.risk = pending.risk_level,
                                    !.aid = action_id]]
                    /\ returned' = NoReturn
    /\ UNCHANGED <<next_action, replaced, executor_vars>>

\* confirm_action line 363: the parameters handed to the executor
ConfirmParams(target) ==
    <<<<"target", target>>, <<"domain", target>>, <<"url", target>>>>

\* confirm_action lines 375-421: the executor's result arrives
ConfirmExecDone(r, outcome) ==
    /\ req[r].pc = "cexec"
    /\ LET run == execute_tool(executable_path, req[r].tool,
                               ConfirmParams(req[r].target))
       IN  /\ outcome \in {"success", "store_raises"} => CanSucceed(run)
           /\ Return(r,
                CASE outcome = "success" ->
                       Response("confirm_action", "response", "Execution successful")
                  [] outcome = "failure" ->
                       Response("confirm_action", "response", "Execution failed")
                  [] outcome = "store_raises" ->
                       Response("confirm_action", "error", "Critical error during execution"))
    /\ UNCHANGED <<sessions, next_action, replaced, executor_vars>>

\* PentestOrchestrator.switch_mode
SwitchMode(session_id, mode) ==
    /\ IF session_id \notin DOMAIN sessions
       THEN /\ returned' = Response("switch_mode", "failure", "Session not found")
            /\ UNCHANGED sessions
       ELSE IF mode \notin Modes
       THEN \* AgentMode(mode) raises ValueError
            /\ returned' = Response("switch_mode", "raised", "ValueError")
            /\ UNCHANGED sessions
       ELSE /\ sessions' = [sessions EXCEPT ![session_id] =
                               session_switch_mode(sessions[session_id], mode)]
            /\ returned' = Response("switch_mode", "success", "mode")
    /\ UNCHANGED <<req, next_action, replaced, executor_vars>>

\* ------------------------------------------------------------------------
\* Specifications
\* ------------------------------------------------------------------------
ModeInputs == Modes \cup {"stealth"}

ExecOutcomes == {"success", "failure", "store_raises"}

\* every step of every call, for the calls in Calls and inputs drawn from
\* the given sets
NextFor(Calls, Sids, Targets, Sels, Edits) ==
    \/ \E r \in Calls, sid \in Sids \cup {None}, m \in ModeInputs :
          HandleRequest(r, sid, m)
    \/ \E r \in Calls, j \in BOOLEAN, t \in Targets, k \in BOOLEAN :
          LLMReply(r, j, t, k)
    \/ \E r \in Calls : StoreTargetDone(r)
    \/ \E r \in Calls, e \in Embeddings, q \in Queries : SearchDone(r, e, q)
    \/ \E r \in Calls, sel \in Sels : SelectDone(r, sel)
    \/ \E r \in Calls : SelectRaises(r)
    \/ \E r \in Calls, o \in ExecOutcomes : ExecDone(r, o)
    \/ \E r \in Calls, sid \in Sids, a \in 0..MaxActions,
          ap \in BOOLEAN, e \in Edits : ConfirmAction(r, sid, a, ap, e)
    \/ \E r \in Calls, o \in ExecOutcomes : ConfirmExecDone(r, o)
    \/ \E sid \in Sids, m \in ModeInputs : SwitchMode(sid, m)

\* Spec: the calls of one session, one at a time, with every risk level,
\* a tool the executor knows and one it does not, targets and edited commands
EditedCommands == {None, "", "nmap -sV example.com"}

Init == InitFor({"c1"}, {NothingFound, NmapFound})

Next ==
    NextFor({"c1"}, {"s1"}, {None, "Example.COM", "agency.gov"},
            Selections, EditedCommands)

Spec == Init /\ [][Next]_vars

\* SpecInterleaved: two calls in flight at once over two sessions
\* a host on which discovery finds no executable

InitInterleaved == InitFor({"c1", "c2"}, {NothingFound})

NextInterleaved ==
    NextFor({"c1", "c2"}, SessionIds, {"Example.COM"},
            SelectionsInterleaved, {None})

SpecInterleaved == InitInterleaved /\ [][NextInterleaved]_vars

\* SpecSessions: the calls of two sessions, one at a time, with confirmations
\* under every action id and with edited commands
InitSessions == InitFor({"c1"}, {NothingFound})

NextSessions ==
    NextFor({"c1"}, SessionIds, {"Example.COM"},
            SelectionsInterleaved, EditedCommands)

SpecSessions == InitSessions /\ [][NextSessions]_vars

\* SpecTargets: the calls of one session, one at a time, with a target that
\* parses and is allowed, one that is blocked, one that does not parse, and
\* none
InitTargets == InitFor({"c1"}, {NothingFound})

NextTargets ==
    NextFor({"c1"}, {"s1"}, RawTargets \cup {None}, SelectionsInterleaved,
            {None})

SpecTargets == InitTargets /\ [][NextTargets]_vars

\* SpecRace: two calls in flight at once on one session, each with a target
\* of its own; call c1 asks for mode hitl and call c2 for mode auto
InitRace == InitFor({"c1", "c2"}, {NothingFound})

RaceCalls == {"c1", "c2"}

RaceTargets == {"Example.COM", "10.0.0.1"}

RaceSelections == { Selection("nmap", "quick", "low", None) }

RaceMode == ("c1" :> "hitl") @@ ("c2" :> "auto")

NextRace ==
    \/ \E r \in RaceCalls : HandleRequest(r, "s1", RaceMode[r])
    \/ \E r \in RaceCalls, t \in RaceTargets : LLMReply(r, TRUE, t, TRUE)
    \/ \E r \in RaceCalls : StoreTargetDone(r)
    \/ \E r \in RaceCalls : SearchDone(r, "vector", "rows")
    \/ \E r \in RaceCalls, sel \in RaceSelections : SelectDone(r, sel)
    \/ \E r \in RaceCalls : SelectRaises(r)
    \/ \E r \in RaceCalls, o \in ExecOutcomes : ExecDone(r, o)
    \/ \E r \in RaceCalls, a \in 0..MaxActions, ap \in BOOLEAN :
          ConfirmAction(r, "s1", a, ap, None)
    \/ \E r \in RaceCalls, o \in ExecOutcomes : ConfirmExecDone(r, o)
    \/ \E m \in Modes : SwitchMode("s1", m)

SpecRace == InitRace /\ [][NextRace]_vars

\* SpecExecutor: the methods of a constructed executor called one after the
\* other, on several hosts
Hosts ==
    { NothingFound,
      NmapFound,
      Host({"nmap", "whois", "httpx", "bbot"}, {}, {}),
      Host({}, {"/usr/local/bin/httpx", "/snap/bin/httpx", "/root/go/bin/nmap"}, {}),
      Host({}, {}, {"bbot", "whois", "nmap"}),
      Host({"whois"}, {"/root/.local/bin/whois"}, {"bbot"}) }

ToolInputs == {"nmap_scan", "nmap", "whois", "httpx", "bbot", "web_search", "sqlmap"}

CommandInputs == {"quick", "lookup", "probe", "search", "default"}

ParamInputs ==
    { << >>,
      << <<"target", "10.0.0.1">> >>,
      << <<"target", "https://t1">> >>,
      << <<"domain", "example.com">> >>,
      << <<"url", "u1">>, <<"domain", "d1">> >>,
      << <<"ip", "10.0.0.1">>, <<"host", "h1">> >>,
      << <<"address", "a1">> >>,
      << <<"target", "t1">>, <<"domain", "d1">>, <<"url", "u1">> >>,
      << <<"target", "{domain}">> >>,
      << <<"target", "a{b">> >>,
      << <<"query", "q1">> >> }

InitExecutor == InitFor({"c1"}, Hosts)

ExecTools == {"whois", "nmap_scan", "technology_detection", "sqlmap"}

ExecCommands == {"lookup", "quick", "detect"}

ExecParams ==
    { << >>,
      << <<"target", "10.0.0.1">> >>,
      << <<"url", "u1">>, <<"target", "t1">> >> }

\* one execution in a behaviour: the executions of SpecThreads follow one
\* another and overlap
NextExecutor ==
    \/ \E name \in ToolInputs \cup {"port_scan", "domain_info", "google_search"} :
          GetTool(name)
    \/ \E t \in ToolInputs, c \in CommandInputs, p \in ParamInputs :
          BuildCommandArgs(t, c, p)
    \/ /\ next_exec = 1
       /\ \E t \in ToolInputs \cup {"technology_detection"},
             c \in CommandInputs \cup {"detect"}, p \in ParamInputs,
             o \in RunOutcomes : Execute("w1", t, c, p, o)
    \/ /\ next_exec = 1
       /\ \E t \in ExecTools, c \in ExecCommands, p \in ExecParams,
             o \in RunOutcomes : ExecuteStreaming("w1", t, c, p, o)
    \/ RecordHistory("w1")
    \/ \E obeys \in BOOLEAN : StreamStep("w1", obeys)
    \/ StreamReadFails("w1")
    \/ Tick("w1")
    \/ ChildWrites("w1", "a")
    \/ ChildForks("w1")
    \/ \E code \in ExitCodes : ChildExits("w1", code)
    \/ \E n \in SpecNames : FindExecutable(n)
    \/ ResultTaken

SpecExecutor == InitExecutor /\ [][NextExecutor]_vars

\* SpecRegistry: an executor under construction; _load_specs registers the
\* specs one by one, in any order, and names are looked up in between
NameInputs ==
    SpecNames \cup {"nmap", "port_scan", "domain_info", "probe", "bionic_bot",
                    "google_search", "sqlmap", ""}

InitRegistry ==
    /\ sessions = << >>
    /\ req = [r \in {"c1"} |-> IdleReq]
    /\ next_action = 1
    /\ returned = NoReturn
    /\ replaced = {}
    /\ specs = NoRegistry.specs
    /\ aliases = NoRegistry.aliases
    /\ host = NothingFound
    /\ executable_path = [n \in SpecNames |-> None]
    /\ is_available = [n \in SpecNames |-> FALSE]
    /\ xcall = NoCall
    /\ execution_history = << >>
    /\ next_exec = 1
    /\ workers = [w \in {"w1"} |-> IdleWorker]

NextRegistry ==
    \/ \E n \in SpecNames : Register(n)
    \/ \E name \in NameInputs : GetTool(name)
    \/ ResultTaken

SpecRegistry == InitRegistry /\ [][NextRegistry]_vars

\* SpecStream: streamed runs of "whois lookup" one after the other, on the
\* pty path and on the win32 path, with a child that writes text, forks,
\* exits or does none of it
WhoisFound == Host({"whois"}, {}, {})

Chars == {"a", "b", "\n", "\r"}

InitStream == InitFor({"c1"}, {WhoisFound, OnWindows(WhoisFound)})

NextStream ==
    \/ \E o \in RunOutcomes :
          ExecuteStreaming("w1", "whois", "lookup",
                           << <<"target", "10.0.0.1">> >>, o)
    \/ \E obeys \in BOOLEAN : StreamStep("w1", obeys)
    \/ StreamStepWin32("w1")
    \/ StreamReadFails("w1")
    \/ Tick("w1")
    \/ \E c \in Chars : ChildWrites("w1", c)
    \/ ChildForks("w1")
    \/ \E code \in ExitCodes : ChildExits("w1", code)
    \/ RecordHistory("w1")
    \/ ResultTaken

SpecStream == InitStream /\ [][NextStream]_vars

\* SpecStreamFair: the same runs under the scheduling the program has: the
\* thread that streams keeps running (an enabled iteration of its loop, and
\* its _record_history call, are taken) and time passes. Nothing is assumed
\* of the child or of the terminal
SpecStreamFair ==
    /\ SpecStream
    /\ WF_vars(\E obeys \in BOOLEAN : StreamStep("w1", obeys))
    /\ WF_vars(StreamStepWin32("w1"))
    /\ WF_vars(Tick("w1"))
    /\ WF_vars(RecordHistory("w1"))

\* SpecThreads: executions on two worker threads against the one executor;
\* each thread is between the construction of its result and its
\* _record_history call while the other runs
Threads == {"w1", "w2"}

ThreadTools == {"whois", "technology_detection", "sqlmap"}

ThreadParams == { << <<"target", "10.0.0.1">> >>, << <<"url", "u1">> >> }

InitThreads == InitWith({"c1"}, {WhoisFound}, Threads)

NextThreads ==
    \/ \E w \in Threads, t \in ThreadTools, c \in {"lookup", "detect"},
          p \in ThreadParams, o \in RunOutcomes : Execute(w, t, c, p, o)
    \/ \E w \in Threads : RecordHistory(w)
    \/ ResultTaken

SpecThreads == InitThreads /\ [][NextThreads]_vars


\* ------------------------------------------------------------------------
\* Semantic search and selection (tool_rag.py)
\* ------------------------------------------------------------------------
\* a row of tool_embeddings as the query returns it: similarity is
\* 1 - cosine distance, in tenths; it is negative for a vector that points
\* away from the query
Row(tool, command, risk_level, similarity) ==
    [tool |-> tool, command |-> command, risk_level |-> risk_level,
     similarity |-> similarity]

RECURSIVE InsertRow(_, _)
\* row put into the sorted rows after the rows that are at least as near
InsertRow(sorted, row) ==
    IF Len(sorted) = 0 THEN << row >>
    ELSE IF sorted[1].similarity >= row.similarity
    THEN << sorted[1] >> \o InsertRow(Tail(sorted), row)
    ELSE << row >> \o sorted

RECURSIVE OrderBy(_)
\* ORDER BY vector <=> :query_vector: nearest first, that is highest
\* similarity first; rows at the same distance stay in table order
OrderBy(table) ==
    IF Len(table) = 0 THEN << >>
    ELSE InsertRow(OrderBy(SubSeq(table, 1, Len(table) - 1)), table[Len(table)])

\* LIMIT :k
Limit(rows, k) == IF Len(rows) <= k THEN rows ELSE SubSeq(rows, 1, k)

\* the statement of lines 199-211 run on the table
fetchall(table, k) == Limit(OrderBy(table), k)

\* RiskLevel(risk_level) if risk_level in [r.value for r in RiskLevel]
\* else RiskLevel.LOW
RiskOf(risk_level) == IF risk_level \in RiskLevels THEN risk_level ELSE "low"

\* ToolCandidate(...) of a row
ToolCandidate(row) ==
    [tool |-> row.tool, command |-> row.command,
     similarity |-> row.similarity, risk_level |-> RiskOf(row.risk_level)]

\* the tools of the candidates
ToolsOf(candidates) == { candidates[i].tool : i \in DOMAIN candidates }

RECURSIVE Deduplicate_keep_last(_, _)
\* a loop in which a later row of a tool takes the place of the candidate
\* that tool has
Deduplicate_keep_last(candidates, rows) ==
    IF Len(rows) = 0 THEN candidates
    ELSE IF rows[1].tool \in ToolsOf(candidates)
    THEN Deduplicate_keep_last(
             [i \in DOMAIN candidates |->
                 IF candidates[i].tool = rows[1].tool
                 THEN ToolCandidate(rows[1]) ELSE candidates[i]],
             Tail(rows))
    ELSE Deduplicate_keep_last(Append(candidates, ToolCandidate(rows[1])),
                               Tail(rows))

RECURSIVE Deduplicate(_, _)
\* the loop of lines 216-243 over the rows still to come: a row whose tool
\* has not been seen becomes a candidate, any other row is skipped
Deduplicate(candidates, rows) ==
    IF Len(rows) = 0 THEN candidates
    ELSE IF rows[1].tool \in ToolsOf(candidates)
    THEN Deduplicate(candidates, Tail(rows))
    ELSE Deduplicate(Append(candidates, ToolCandidate(rows[1])), Tail(rows))

\* ToolCandidate declares similarity with ge=0, le=1: building a candidate
\* from a row outside that range raises a ValidationError that search does
\* not catch
Invalid(candidate) == candidate.similarity < 0 \/ candidate.similarity > 10

\* ToolRAG.search once the query vector is there: the candidates, or raised
SearchRows(table, k) ==
    IF \E i \in DOMAIN Deduplicate(<< >>, fetchall(table, k)) :
          Invalid(Deduplicate(<< >>, fetchall(table, k))[i])
    THEN [raised |-> TRUE, rows |-> fetchall(table, k), candidates |-> << >>]
    ELSE [raised |-> FALSE, rows |-> fetchall(table, k),
          candidates |-> Deduplicate(<< >>, fetchall(table, k))]

\* what the reasoning service answers to the request of select_tool. status:
\* the post or raise_for_status raises (http_error), the body is not the
\* JSON object expected (bad_body), or content is there (ok). json: content
\* holds no JSON text (none: empty reply, prose, malformed braces), JSON that
\* is not an object (not_object), or an object. tool: the "tool" entry of
\* the object, Absent, Null, or a name. confidence: absent, within 0..1, or
\* outside
Absent == "<absent>"
Null == "<null>"
ReplyTools == {Absent, Null, "nmap_scan", "whois", "metasploit"}
Replies ==
    [status : {"http_error", "bad_body"}, json : {"none"}, tool : {Absent},
     confidence : {"absent"}]
    \cup [status : {"ok"}, json : {"none", "not_object"}, tool : {Absent},
          confidence : {"absent"}]
    \cup [status : {"ok"}, json : {"object"}, tool : ReplyTools,
          confidence : {"absent", "in_range", "out_of_range"}]

\* no selection
NoSelection ==
    [tool |-> None, command |-> None, risk_level |-> "low", fallback |-> FALSE]

\* lines 324-331: the selection built from the first candidate
Fallback(candidates) ==
    [tool |-> candidates[1].tool, command |-> candidates[1].command,
     risk_level |-> candidates[1].risk_level, fallback |-> TRUE]

\* the index of the first candidate whose tool is name, 0 when there is none
RECURSIVE FirstWithTool(_, _, _)
FirstWithTool(candidates, name, i) ==
    IF i > Len(candidates) THEN 0
    ELSE IF candidates[i].tool = name THEN i
    ELSE FirstWithTool(candidates, name, i + 1)

\* next((c for c in candidates if c.tool == selection_data.get("tool")),
\* candidates[0])
selected_candidate(candidates, reply) ==
    IF FirstWithTool(candidates, reply.tool, 1) = 0 THEN candidates[1]
    ELSE candidates[FirstWithTool(candidates, reply.tool, 1)]

\* lines 311-317: tool is selection_data.get("tool", candidates[0].tool),
\* the risk level is that of selected_candidate; the command is the one
\* the reply names, not kept here
Selected(candidates, reply) ==
    [tool |-> IF reply.tool = Absent THEN candidates[1].tool ELSE reply.tool,
     command |-> None,
     risk_level |-> selected_candidate(candidates, reply).risk_level,
     fallback |-> FALSE]

\* the try block of lines 298-319 raises: json.loads fails, the JSON value
\* has no get, or ToolSelection refuses a field (tool declared str and given
\* null, confidence declared ge=0, le=1)
ParseFails(reply) ==
    \/ reply.json \in {"none", "not_object"}
    \/ reply.tool = Null
    \/ reply.confidence = "out_of_range"

\* ToolRAG.select_tool(intent, target, candidates, model): None without
\* candidates; the request of lines 283-294 is outside the try block and its
\* exceptions leave select_tool
select_tool(candidates, reply) ==
    IF Len(candidates) = 0
    THEN [raised |-> FALSE, returned_none |-> TRUE, selection |-> NoSelection]
    ELSE IF reply.status # "ok"
    THEN [raised |-> TRUE, returned_none |-> FALSE, selection |-> NoSelection]
    ELSE IF ParseFails(reply)
    THEN [raised |-> FALSE, returned_none |-> FALSE,
          selection |-> Fallback(candidates)]
    ELSE [raised |-> FALSE, returned_none |-> FALSE,
          selection |-> Selected(candidates, reply)]

\* tool_rag.search(query, k) on an index that holds table
Search(table, k) ==
    /\ Quiet
    /\ xcall' = Called("search", "", "", << >>,
                       [table |-> table] @@ SearchRows(table, k))
    /\ UNCHANGED <<orchestrator_vars, specs, aliases, executable_path,
                   is_available, host, run_vars>>

\* tool_rag.select_tool on the candidates the search before it returned
SelectTool(reply) ==
    /\ xcall.op = "search"
    /\ ~xcall.raised
    /\ xcall' = Called("select_tool", "", "", << >>,
                       [candidates |-> xcall.candidates, reply |-> reply]
                       @@ select_tool(xcall.candidates, reply))
    /\ UNCHANGED <<orchestrator_vars, specs, aliases, executable_path,
                   is_available, host, run_vars>>

\* SpecRag: searches over every table of up to MaxRows rows, each followed
\* or not by a selection under every reply
RowSet ==
    { Row("nmap_scan", "quick", "critical", 9),
      Row("nmap_scan", "full", "critical", 3),
      Row("nmap_scan", "full", "low", -1),
      Row("whois", "lookup", "low", 9),
      Row("whois", "lookup", "unrated", 3),
      Row("httpx", "probe", "medium", 3),
      Row("httpx", "probe", "low", 11) }

RECURSIVE Tables(_)
Tables(n) ==
    IF n = 0 THEN { << >> }
    ELSE Tables(n - 1)
         \cup { Append(t, r) : t \in { u \in Tables(n - 1) : Len(u) = n - 1 },
                               r \in RowSet }

InitRag == InitFor({"c1"}, {NothingFound})

NextRag ==
    \/ \E table \in Tables(MaxRows), k \in {2, 5} : Search(table, k)
    \/ \E reply \in Replies : SelectTool(reply)
    \/ ResultTaken

SpecRag == InitRag /\ [][NextRag]_vars

\* ------------------------------------------------------------------------
\* Properties
\* ------------------------------------------------------------------------
HighRisk == {"high", "critical"}

\* in this step call r hands an action to the terminal mirror and to the
\* executor
HandsOff(r) ==
    /\ req[r].pc \notin {"exec", "cexec"}
    /\ req'[r].pc \in {"exec", "cexec"}

\* in this step call r answers confirmation_required for the selection sel:
\* the session holds a new pending action built from sel and nothing was
\* handed to the terminal or the executor
StoresPending(r, sel) ==
    LET sid == req[r].sid IN
    /\ req'[r].pc = "idle"
    /\ returned' = Response("handle_request", "confirmation_required",
                            "display_response")
    /\ sessions'[sid].pending_action # NoAction
    /\ sessions'[sid].pending_action.action_id = next_action
    /\ sessions'[sid].pending_action.tool_name = sel.tool
    /\ sessions'[sid].pending_action.risk_level = sel.risk
    /\ \A c \in DOMAIN req : ~HandsOff(c)

\* C1: under every interleaving of handle_request, confirm_action and
\* switch_mode calls over the sessions, a step that hands a high- or
\* critical-risk action to the terminal mirror and the executor is a
\* confirm_action step with approved = true whose action id is the id of the
\* pending action of its session, and that pending action is the one handed
\* over.
C1_HighRiskOnlyAfterApproval ==
    [][\A r \in DOMAIN req :
          HandsOff(r) /\ req'[r].risk \in HighRisk =>
             \E sid \in DOMAIN sessions :
                /\ sessions[sid].pending_action # NoAction
                /\ sessions[sid].pending_action.action_id = req'[r].aid
                /\ sessions[sid].pending_action.risk_level = req'[r].risk
                /\ sessions[sid].pending_action.tool_name = req'[r].tool
                /\ \E e \in EditedCommands :
                      ConfirmAction(r, sid, req'[r].aid, TRUE, e)]_vars

\* C1 witness: a high-risk action is being executed after its approval while
\* another call is in flight
C1_Witness ==
    \E r, c \in DOMAIN req :
        /\ r # c
        /\ req[r].pc = "cexec" /\ req[r].risk = "high"
        /\ req[c].pc \notin {"idle"}

PendingUnchanged ==
    \A sid \in DOMAIN sessions :
        /\ sid \in DOMAIN sessions'
        /\ sessions'[sid].pending_action = sessions[sid].pending_action

Refused(r, content) ==
    /\ returned' = Response("confirm_action", "error", content)
    /\ sessions' = sessions
    /\ req' = req
    /\ next_action' = next_action

ExecutionFailureResponses ==
    { Response("confirm_action", "response", "Execution failed"),
      Response("confirm_action", "error", "Critical error during execution") }

ExecutedCommand(r) ==
    IF execute_tool(executable_path, req[r].tool,
                    ConfirmParams(req[r].target)).kind = "subprocess"
    THEN Join(execute_tool(executable_path, req[r].tool,
                           ConfirmParams(req[r].target)).args, " ")
    ELSE None

SynthesisFails(sel, session) ==
    ~get_command_string(executable_path, sel.tool,
                        IF sel.command \in {None, ""} THEN "default"
                        ELSE sel.command,
                        <<<<"target", TargetOr(session, "target")>>>>).ok

Synthesized ==
    /\ xcall.op = "build_command_args"
    /\ xcall.spec # None
    /\ xcall.command \in DOMAIN ToolSpecs[xcall.spec].commands

\* the template the last call named
TemplateOf(x) == ToolSpecs[x.spec].commands[x.command]

\* the tokens of a template that are placeholders, and the key each names
IsPlaceholder(token) ==
    Len(token) > 2 /\ StartsWith(token, "{") /\ EndsWith(token, "}")

KeyOf(token) == SubSeq(token, 2, Len(token) - 1)

\* every placeholder of the template has a key in the parameters
AllBound(template, params) ==
    \A i \in 1..Len(template) :
        IsPlaceholder(template[i]) => DictHas(params, KeyOf(template[i]))

\* C12: whenever every placeholder of the template has a key in the
\* normalised parameters, whatever the values are, build_command_args
\* succeeds and no token of the vector still holds a placeholder of the
\* template
C12_BoundPlaceholdersSucceed ==
    (Synthesized /\ AllBound(TemplateOf(xcall), xcall.norm_params))
        => /\ xcall.ok
           /\ \A i \in 2..Len(xcall.args), j \in 1..Len(TemplateOf(xcall)) :
                 IsPlaceholder(TemplateOf(xcall)[j])
                    => ~Contains(xcall.args[i], TemplateOf(xcall)[j])

\* the last call was execute or execute_streaming for a registered tool and
\* one of its commands
Executed ==
    /\ xcall.op \in {"execute", "execute_streaming"}
    /\ xcall.spec # None
    /\ xcall.command \in DOMAIN ToolSpecs[xcall.spec].commands

\* the placeholders of the template that have no key in the parameters
Missing(template, params) ==
    {template[i] : i \in {j \in 1..Len(template) :
                             /\ IsPlaceholder(template[j])
                             /\ ~DictHas(params, KeyOf(template[j]))}}

\* C13: when the normalised parameters leave a placeholder of the template
\* without a value, build_command_args raises the missing-parameter error
\* naming a token that has no value and returns no vector, and execute and
\* execute_streaming start no process and report no success of a command
C13_MissingParameterNeverRuns ==
    /\ (Synthesized /\ ~AllBound(TemplateOf(xcall), xcall.norm_params))
          => /\ ~xcall.ok
             /\ xcall.error = "Missing required parameter in template"
             /\ xcall.token \in Missing(TemplateOf(xcall), xcall.norm_params)
             /\ xcall.args = << >>
    /\ (Executed /\ ~AllBound(TemplateOf(xcall), NormalizeParams(xcall.params)))
          => /\ xcall.launched = << >>
             /\ ~xcall.completed
             /\ ~xcall.in_process => ~xcall.success

\* nmap_scan/quick with empty parameters has raised the error naming {target}
C13_Witness ==
    /\ xcall.op = "build_command_args"
    /\ xcall.tool = "nmap_scan" /\ xcall.command = "quick"
    /\ xcall.params = << >>
    /\ ~xcall.ok /\ xcall.token = "{target}"

\* the keys of a parameter mapping
Keys(params) == {params[i][1] : i \in 1..Len(params)}

\* the value normalisation gives target: the caller's, else that of the
\* first key of order the caller supplied, else none
ExpectedTarget(params, order) ==
    IF DictHas(params, "target") THEN DictGet(params, "target")
    ELSE IF \E i \in 1..Len(order) : DictHas(params, order[i])
    THEN DictGet(params,
                 order[CHOOSE i \in 1..Len(order) :
                          /\ DictHas(params, order[i])
                          /\ \A j \in 1..(i - 1) : ~DictHas(params, order[j])])
    ELSE None

\* a value with the scheme http:// put in front unless it has http:// or https://
WithScheme(val) ==
    IF \/ (Len(val) >= 7 /\ SubSeq(val, 1, 7) = "http://")
       \/ (Len(val) >= 8 /\ SubSeq(val, 1, 8) = "https://")
    THEN val ELSE "http://" \o val

\* norm is params normalised: target first, then domain, then url
NormalizedAs(params, norm) ==
    LET target == ExpectedTarget(params,
                                 <<"domain", "url", "host", "ip", "address">>)
    IN  /\ Keys(norm) = Keys(params) \cup
                         (IF target # None THEN {"target", "domain", "url"} ELSE {})
        /\ \A k \in Keys(params) : DictGet(norm, k) = DictGet(params, k)
        /\ target # None =>
              /\ DictGet(norm, "target") = target
              /\ ~DictHas(params, "domain") => DictGet(norm, "domain") = target
              /\ ~DictHas(params, "url") => DictGet(norm, "url") = WithScheme(target)

\* C14: the parameters build_command_args substitutes from are the caller's,
\* with target taken from the first present of domain, url, host, ip, address
\* when absent, then domain set to target when absent, then url set to target
\* (with http:// in front unless it has a scheme) when absent; no supplied
\* value is overwritten and the caller's mapping is as it was passed
C14_NormalizationPrecedence ==
    /\ [](Synthesized => NormalizedAs(xcall.params, xcall.norm_params))
    /\ [][\A t \in ToolInputs, c \in CommandInputs, p \in ParamInputs :
              (Ready /\ xcall'.op = "build_command_args"
                     /\ BuildCommandArgs(t, c, p)) => xcall'.params = p]_vars

\* ip and host were supplied, in that order, and target, domain and url have
\* been derived from host
C14_Witness ==
    /\ Synthesized
    /\ xcall.params = << <<"ip", "10.0.0.1">>, <<"host", "h1">> >>
    /\ DictGet(xcall.norm_params, "target") = "h1"
    /\ DictGet(xcall.norm_params, "domain") = "h1"
    /\ DictGet(xcall.norm_params, "url") = "http://h1"

\* the token a template token becomes: the value of its key for a
\* placeholder, itself otherwise
Substituted(token, params) ==
    IF IsPlaceholder(token) THEN DictGet(params, KeyOf(token)) ELSE token

\* C15: the vector build_command_args returns is the discovered executable
\* path, or the tool's name when there is none, followed by the tokens of
\* the template in declared order, each substituted: 1 + Len(template)
\* tokens; nmap_scan/quick with target 10.0.0.1 gives
\* [path, -T4, -F, -Pn, 10.0.0.1]
C15_VectorShape ==
    (Synthesized /\ xcall.ok) =>
        /\ Len(xcall.args) = 1 + Len(TemplateOf(xcall))
        /\ xcall.args[1] = IF executable_path[xcall.spec] # None
                           THEN executable_path[xcall.spec]
                           ELSE ToolSpecs[xcall.spec].name
        /\ \A i \in 1..Len(TemplateOf(xcall)) :
              xcall.args[i + 1] =
                 Substituted(TemplateOf(xcall)[i], xcall.norm_params)
        /\ (/\ xcall.tool = "nmap_scan" /\ xcall.command = "quick"
            /\ xcall.params = << <<"target", "10.0.0.1">> >>)
              => /\ SubSeq(xcall.args, 2, 5) = <<"-T4", "-F", "-Pn", "10.0.0.1">>
                 /\ xcall.args[1] \in {"/usr/bin/nmap", "/root/go/bin/nmap",
                                       "nmap_scan"}

\* nmap_scan/quick with target 10.0.0.1 on a host with nmap on PATH
C15_Witness ==
    /\ Synthesized
    /\ xcall.tool = "nmap_scan" /\ xcall.command = "quick"
    /\ xcall.args = <<"/usr/bin/nmap", "-T4", "-F", "-Pn", "10.0.0.1">>

\* the specs that carry the name, or declare it as an alias
SpecsFor(name) ==
    {n \in SpecNames :
        \/ n = name
        \/ \E i \in 1..Len(ToolSpecs[n].aliases) : ToolSpecs[n].aliases[i] = name}

\* C16: build_command_args raises the unknown-tool error when the name is
\* neither a registered name nor a declared alias, whatever the command is,
\* and the unknown-command error when the tool resolves and the command is
\* not a key of its commands; it returns no vector in either case
C16_UnknownToolThenCommand ==
    xcall.op = "build_command_args" =>
        /\ SpecsFor(xcall.tool) = {}
              => /\ ~xcall.ok /\ xcall.error = "Unknown tool"
                 /\ xcall.args = << >>
        /\ \A n \in SpecsFor(xcall.tool) :
              xcall.command \notin DOMAIN ToolSpecs[n].commands
                 => /\ ~xcall.ok /\ xcall.error = "Unknown command"
                    /\ xcall.args = << >>

\* an unregistered tool with a command no spec has: the unknown-tool error
C16_Witness ==
    /\ xcall.op = "build_command_args"
    /\ xcall.tool = "sqlmap" /\ xcall.command = "default"
    /\ xcall.error = "Unknown tool"

\* C17: for a registered tool that discovery left unavailable, synthesis and
\* execution end in an error and no argument vector is handed to the
\* operating system to start a child
C17_UnavailableToolNotRun ==
    (/\ xcall.op \in {"build_command_args", "execute", "execute_streaming"}
     /\ xcall.spec # None
     /\ ~is_available[xcall.spec])
        => /\ ~xcall.ok
           /\ ~xcall.success
           /\ xcall.error # ""
           /\ xcall.launched = << >>

\* the registered specs that declare the alias a
Declaring(a) ==
    {n \in specs : \E i \in 1..Len(ToolSpecs[n].aliases) : ToolSpecs[n].aliases[i] = a}

\* C18: whatever specs have been registered, in whatever order, get_tool of
\* the name of a registered spec returns that spec, get_tool of an alias a
\* registered spec declares returns the spec declaring it, and get_tool of
\* any other string returns None
C18_GetToolResolves ==
    xcall.op = "get_tool" =>
        /\ xcall.tool \in specs => xcall.spec = xcall.tool
        /\ \A n \in Declaring(xcall.tool) : xcall.spec = n
        /\ (xcall.tool \notin specs /\ Declaring(xcall.tool) = {})
              => xcall.spec = None

\* with two of the six specs registered, an alias has resolved to its spec
C18_Witness ==
    /\ xcall.op = "get_tool"
    /\ specs = {"whois", "nmap_scan"}
    /\ xcall.tool = "port_scan"
    /\ xcall.spec = "nmap_scan"

\* C19: a run of find_executable after the one of _discover_tools, on the
\* same host, leaves executable_path and is_available of every spec as they
\* were and returns what the first run returned: True exactly when the first
\* run marked the tool available
C19_DiscoveryIdempotent ==
    [][\A n \in SpecNames :
          (Ready /\ FindExecutable(n))
             => /\ executable_path' = executable_path
                /\ is_available' = is_available
                /\ host' = host
                /\ xcall'.result = is_available[n]]_vars

\* httpx, found outside PATH by the first run, has been looked for again
C19_Witness ==
    /\ xcall.op = "find_executable"
    /\ xcall.tool = "httpx"
    /\ xcall.result
    /\ executable_path["httpx"] = "/usr/local/bin/httpx"
    /\ is_available["httpx"]

\* C20: when execute ran a child to its end, the result reports success
\* exactly when the child's return code is one of the command's success
\* codes, and the output parser has run exactly when it reports success; a
\* child that could not be run to its end gives a failure with nothing parsed
C20_SuccessCodesDecide ==
    (xcall.op = "execute" /\ ~xcall.in_process) =>
        /\ xcall.completed =>
              /\ xcall.success <=>
                    xcall.exit_code
                       \in ToolSpecs[xcall.spec].success_codes[xcall.command]
              /\ xcall.parsed <=> xcall.success
        /\ ~xcall.completed => (~xcall.success /\ ~xcall.parsed)

\* whois/lookup ended with return code 1, which its template declares
\* a success
C20_Witness ==
    /\ xcall.op = "execute" /\ xcall.completed
    /\ xcall.spec = "whois" /\ xcall.command = "lookup"
    /\ xcall.exit_code = 1
    /\ xcall.success /\ xcall.parsed

\* an execute or execute_streaming call has returned
Returned == xcall.op \in {"execute", "execute_streaming"}

\* C21: an execution that exceeds its timeout, in captured mode and in
\* streaming mode, returns a result whose success flag is false and whose
\* error field reports the timeout
C21_TimeoutIsFailure ==
    (Returned /\ xcall.timed_out) => (~xcall.success /\ xcall.error # "")

\* the positions of the history that hold an entry with that execution id
Entries(id) ==
    { i \in DOMAIN execution_history : execution_history[i].id = id }

\* C22: when a call of execute or execute_streaming returns, whatever its
\* outcome, the history holds exactly one entry with the execution id of the
\* result
C22_EveryCallRecorded ==
    Returned => Cardinality(Entries(xcall.execution_id)) = 1

\* C24: the lines a streamed command emits when it exceeds its timeout end
\* with the timeout sentinel, also when text was buffered at that moment
C24_SentinelLast ==
    (xcall.op = "execute_streaming" /\ xcall.timed_out)
        => xcall.lines[Len(xcall.lines)] = "[TIMEOUT]"

\* C25: when the result of a streamed execution ended by its timeout is
\* returned, neither the child nor a process of its group is alive
C25_GroupTerminated ==
    (xcall.op = "execute_streaming" /\ xcall.timed_out) => xcall.alive = {}

\* C26: a streaming execution that has started its child eventually returns,
\* whatever the child does, on the pty path and on the win32 path
C26_StreamReturns ==
    (workers["w1"].pc = "stream") ~> (workers["w1"].pc = "idle")

\* every entry of the history stays where and what it was
HistoryGrows ==
    /\ Len(execution_history') >= Len(execution_history)
    /\ SubSeq(execution_history', 1, Len(execution_history)) = execution_history

\* the step in which thread w returns from _record_history puts the entry of
\* its result, and nothing else, at the end of the history
AppendedBy(w) ==
    (workers[w].pc = "record" /\ workers'[w].pc = "idle") =>
        /\ Len(execution_history') = Len(execution_history) + 1
        /\ execution_history'[Len(execution_history')]
              = HistoryEntry(workers[w].call)

\* C23: with executions running on several threads, the append of each
\* recorded execution takes effect exactly once (the entry is added at the
\* end, no execution id occurs twice), and the entries already in the
\* history are never changed or removed
C23_AppendsExactlyOnce ==
    /\ [](\A id \in 1..MaxExecutions + 1 : Cardinality(Entries(id)) <= 1)
    /\ [][HistoryGrows /\ \A w \in DOMAIN workers : AppendedBy(w)]_vars

\* one thread has recorded its result while the other, which started first,
\* is still about to record its own
C23_Witness ==
    /\ Len(execution_history) = 1
    /\ \E w \in DOMAIN workers :
          /\ workers[w].pc = "record"
          /\ workers[w].call.execution_id < execution_history[1].id

\* the lines emitted other than the timeout sentinel
WithoutSentinel(lines) == SelectSeq(lines, LAMBDA l : l # "[TIMEOUT]")

RECURSIVE StripLineEnds(_)
\* s with every CR and LF removed
StripLineEnds(s) ==
    IF s = "" THEN s
    ELSE IF SubSeq(s, 1, 1) \in {"\r", "\n"}
    THEN StripLineEnds(SubSeq(s, 2, Len(s)))
    ELSE SubSeq(s, 1, 1) \o StripLineEnds(SubSeq(s, 2, Len(s)))

RECURSIVE Runs(_, _)
\* the maximal runs of characters other than CR and LF of s, in order, after
\* the run cur that precedes s
Runs(cur, s) ==
    IF s = "" THEN (IF cur = "" THEN << >> ELSE << cur >>)
    ELSE IF SubSeq(s, 1, 1) \in {"\r", "\n"}
    THEN (IF cur = "" THEN << >> ELSE << cur >>) \o Runs("", SubSeq(s, 2, Len(s)))
    ELSE Runs(cur \o SubSeq(s, 1, 1), SubSeq(s, 2, Len(s)))

\* a streamed run on the pty path has returned
PtyStreamReturned ==
    /\ xcall.op = "execute_streaming"
    /\ xcall.launched # << >>
    /\ host.platform # "win32"

\* C27: on the pty path the lines emitted, without the sentinel, are the runs
\* of characters other than CR and LF of the text read from the terminal, in
\* order (each CR or LF ends a line, the text buffered when the loop ends is
\* the last line), so that they concatenate to the text read with CR and LF
\* removed
C27_EveryCharacterOnce ==
    PtyStreamReturned =>
        /\ WithoutSentinel(xcall.lines) = Runs("", xcall.read)
        /\ Join(WithoutSentinel(xcall.lines), "") = StripLineEnds(xcall.read)

\* a line ended by a line feed was emitted, a character was buffered after
\* it, then the timeout fired
C27_Witness ==
    /\ PtyStreamReturned
    /\ xcall.read = "b\na"
    /\ xcall.lines = << "b", "[TIMEOUT]", "a" >>

\* a streamed run of a registered external tool has returned
StreamedReturned ==
    /\ xcall.op = "execute_streaming"
    /\ xcall.spec # None
    /\ ~xcall.in_process

\* C28: a streamed run whose loop completes without an exception returns
\* success true, whatever the exit status of the child, with the emitted
\* lines joined by line feeds as output; a streamed run is unsuccessful only
\* when an exception was raised, and then carries its error
C28_StreamedSuccess ==
    StreamedReturned =>
        /\ xcall.completed <=> xcall.success
        /\ xcall.completed => xcall.output = Join(xcall.lines, "\n")
        /\ ~xcall.completed => xcall.error # ""

\* the child wrote two lines and ended with exit status 2
C28_Witness ==
    /\ StreamedReturned
    /\ xcall.completed /\ xcall.success
    /\ xcall.child_exited /\ xcall.child_code = 2
    /\ xcall.output = "a\nb"

\* a call for an in-process tool has returned: no argument vector, no child,
\* and the routine was called with the supplied parameters its signature
\* declares
InProcessCall ==
    /\ xcall.args = << >>
    /\ xcall.launched = << >>
    /\ xcall.alive = {}
    /\ \A i \in DOMAIN xcall.params :
          xcall.params[i][1] \in Signature(xcall.spec)
             <=> \E j \in DOMAIN xcall.called_with :
                    xcall.called_with[j] = xcall.params[i]
    /\ \A j \in DOMAIN xcall.called_with :
          \E i \in DOMAIN xcall.params : xcall.called_with[j] = xcall.params[i]

\* success is the "success" entry of a payload that has one
PayloadSuccess ==
    /\ xcall.payload = "success_true" => xcall.success
    /\ xcall.payload = "success_false" => ~xcall.success

\* the statement as it stands: any value other than a payload with a
\* "success" entry gives success with parsed data {result: value}
C29_Original ==
    (Returned /\ xcall.in_process) =>
        /\ InProcessCall
        /\ PayloadSuccess
        /\ xcall.payload \in {"dict", "value"} =>
              (xcall.success /\ xcall.parsed_data = "wrapped")

\* C29: a call for an in-process tool builds no argument vector and starts no
\* child; the routine gets the supplied parameters its signature declares;
\* success is the "success" entry of a returned dict that has one, and true
\* for any other returned value; the parsed data are the returned dict
\* itself when the value is a dict, and {result: value} otherwise
C29_InProcess ==
    (Returned /\ xcall.in_process) =>
        /\ InProcessCall
        /\ PayloadSuccess
        /\ xcall.payload \in {"dict", "value"} => xcall.success
        /\ xcall.payload = "value" => xcall.parsed_data = "wrapped"
        /\ xcall.payload \in {"dict", "success_true", "success_false"}
              => xcall.parsed_data = "payload"

\* technology_detection was called with url alone out of two parameters and
\* reported failure in its payload
C29_Witness ==
    /\ Returned /\ xcall.in_process
    /\ xcall.spec = "technology_detection"
    /\ Len(xcall.params) = 2 /\ Len(xcall.called_with) = 1
    /\ xcall.payload = "success_false" /\ ~xcall.success

\* C30: when the embedding backend gives no vector, because the request
\* fails or because the answer holds none, handle_request answers with its
\* plain response, stores no pending action and executes nothing
C30_NoEmbeddingNoTool ==
    [][\A r \in DOMAIN req :
          req[r].pc = "search" =>
             \A e \in {"no_vector", "raises"}, q \in Queries :
                SearchDone(r, e, q)
                   => /\ returned'.type = "response"
                      /\ req'[r].pc = "idle"
                      /\ PendingUnchanged]_vars


\* a search has returned its candidates
Searched == xcall.op = "search" /\ ~xcall.raised

\* C31: the candidates search returns are in non-increasing similarity
\* order, no two of them have the same tool, every tool of a row fetched has
\* its candidate, and the candidate of a tool is a row of that tool with the
\* highest similarity the index holds for it
C31_CandidatesOrderedDistinctBest ==
    Searched =>
        /\ \A i, j \in DOMAIN xcall.candidates :
              i < j => /\ xcall.candidates[i].similarity
                             >= xcall.candidates[j].similarity
                       /\ xcall.candidates[i].tool # xcall.candidates[j].tool
        /\ \A n \in DOMAIN xcall.rows :
              \E i \in DOMAIN xcall.candidates :
                 xcall.candidates[i].tool = xcall.rows[n].tool
        /\ \A i \in DOMAIN xcall.candidates :
              /\ \E n \in DOMAIN xcall.table :
                    /\ xcall.table[n].tool = xcall.candidates[i].tool
                    /\ xcall.table[n].command = xcall.candidates[i].command
                    /\ xcall.table[n].similarity = xcall.candidates[i].similarity
              /\ \A n \in DOMAIN xcall.table :
                    xcall.table[n].tool = xcall.candidates[i].tool
                       => xcall.table[n].similarity
                             <= xcall.candidates[i].similarity

\* the index held the lower row of nmap_scan before its higher one, and a
\* row of whois; both tools came back, nmap_scan with its higher row
C31_Witness ==
    /\ Searched
    /\ Len(xcall.table) = 3
    /\ xcall.table[1].tool = "nmap_scan" /\ xcall.table[1].similarity = 3
    /\ xcall.table[2].tool = "whois"
    /\ xcall.table[3].tool = "nmap_scan" /\ xcall.table[3].similarity = 9
    /\ Len(xcall.candidates) = 2
    /\ xcall.candidates[1].command = "quick"

\* select_tool has returned a selection
SelectionReturned ==
    xcall.op = "select_tool" /\ ~xcall.raised /\ ~xcall.returned_none

\* C32: the tool of the selection select_tool returns is the tool of one of
\* the candidates and its risk level is that candidate's; when the reply
\* holds no JSON object or names a tool that is no candidate, the selection
\* is the first, highest-similarity candidate
C32_SelectionIsCandidate ==
    SelectionReturned =>
        /\ \E i \in DOMAIN xcall.candidates :
              /\ xcall.selection.tool = xcall.candidates[i].tool
              /\ xcall.selection.risk_level = xcall.candidates[i].risk_level
        /\ (xcall.reply.json # "object"
              \/ \A i \in DOMAIN xcall.candidates :
                    xcall.reply.tool # xcall.candidates[i].tool)
            => /\ xcall.selection.tool = xcall.candidates[1].tool
               /\ xcall.selection.risk_level = xcall.candidates[1].risk_level

\* C33: with at least one candidate select_tool returns a selection,
\* whatever the reasoning service does: it neither raises nor returns None
C33_SelectToolAlwaysSelects ==
    (xcall.op = "select_tool" /\ Len(xcall.candidates) >= 1)
        => (~xcall.raised /\ ~xcall.returned_none)


\* the step belongs to a call made with session id B: a handle_request or a
\* confirm_action on B moves on, or switch_mode(B, ...) runs
StepOn(B) ==
    \/ \E r \in DOMAIN req :
          /\ req'[r] # req[r]
          /\ B \in {req[r].sid, req'[r].sid}
    \/ \E r \in DOMAIN req, a \in 0..MaxActions, ap \in BOOLEAN :
          ConfirmAction(r, B, a, ap, None)
    \/ \E m \in ModeInputs : SwitchMode(B, m)

SessionFields(session) ==
    <<session.mode, session.current_target, session.pending_action>>

\* C34: sessions are independent: a step of handle_request, confirm_action
\* or switch_mode made with one session id leaves the mode, the current
\* target and the pending action of every other session as they were, under
\* every interleaving of calls on different sessions
C34_SessionsIndependent ==
    [][\A B \in DOMAIN sessions :
          /\ B \in DOMAIN sessions'
          /\ SessionFields(sessions'[B]) # SessionFields(sessions[B])
                => StepOn(B)]_vars

\* session s1 waits for a confirmation while a call on s2 is being executed
C34_Witness ==
    /\ {"s1", "s2"} \subseteq DOMAIN sessions
    /\ sessions["s1"].pending_action # NoAction
    /\ sessions["s1"].mode = "hitl"
    /\ sessions["s2"].mode = "auto"
    /\ \E r \in DOMAIN req : req[r].pc = "exec" /\ req[r].sid = "s2"


\* handle_request lines 213-219: the tool, command name and parameters the
\* command string is synthesized from
SynthesizedFrom(sel, session) ==
    [tool    |-> sel.tool,
     command |-> IF sel.command \in {None, ""} THEN "default" ELSE sel.command,
     params  |-> <<<<"target", TargetOr(session, "target")>>>>]

\* execute_tool lines 277-293: the tool, command name and parameters it hands
\* to execute when called without a command_name keyword
ExecuteToolRuns(tool_name, parameters) ==
    LET c == ColonIndex(tool_name) IN
    IF c # 0
    THEN [tool    |-> SubSeq(tool_name, 1, c - 1),
          command |-> SubSeq(tool_name, c + 1, Len(tool_name)),
          params  |-> parameters]
    ELSE [tool |-> tool_name, command |-> "default", params |-> parameters]

PassedTargets ==
    { parse(t).normalized : t \in { u \in RawTargets : is_allowed(parse(u)) } }

OwnTarget(r) == parse(req[r].first_target).normalized

GateAsked(sid) ==
    /\ sessions'[sid].pending_action # NoAction
    /\ sessions'[sid].pending_action # sessions[sid].pending_action

RefusedWhileExecuting(r, sid, a, Errors) ==
    \A ap \in BOOLEAN :
       ConfirmAction(r, sid, a, ap, None) =>
          /\ \E e \in Errors :
                returned' = Response("confirm_action", "error", e)
          /\ req'[r].pc = "idle"
          /\ sessions' = sessions

\* confirm_action lines 326-373 for every pending action in execution: it was
\* the pending action and was cleared in the step that started the
\* execution, no other call executes it, a further confirm_action with its id
\* is refused with one of Errors, and Idle holds of the session when the
\* execution ends; the id of a new pending action is a fresh one
ExecutedOnce(Errors, Idle(_, _)) ==
    /\ \A r \in DOMAIN req :
          (req[r].pc = "idle" /\ req'[r].pc = "cexec") =>
             /\ sessions[req'[r].sid].pending_action.action_id = req'[r].aid
             /\ sessions'[req'[r].sid].pending_action = NoAction
    /\ \A r1 \in DOMAIN req :
          req[r1].pc = "cexec" =>
             /\ sessions[req[r1].sid].pending_action.action_id # req[r1].aid
             /\ \A r2 \in DOMAIN req \ {r1} :
                   /\ req[r2].pc = "idle"
                         => RefusedWhileExecuting(r2, req[r1].sid, req[r1].aid, Errors)
                   /\ req'[r2].pc = "cexec" => req'[r2].aid # req[r1].aid
             /\ \A o \in ExecOutcomes :
                   ConfirmExecDone(r1, o)
                      => Idle(sessions'[req[r1].sid], req[r1].aid)
    /\ \A sid \in DOMAIN sessions \cap DOMAIN sessions' :
          (/\ sessions'[sid].pending_action # sessions[sid].pending_action
           /\ sessions'[sid].pending_action # NoAction)
             => /\ sessions'[sid].pending_action.action_id = next_action
                /\ next_action' = next_action + 1

NothingPending(session, a) == session.pending_action = NoAction

NotPendingAgain(session, a) == session.pending_action.action_id # a

C39_DescriptorsClosed ==
    PtyStreamReturned =>
       /\ xcall.open_fds = {}
       /\ xcall.error # "UnboundLocalError"
====
